---- MODULE Spec2Model ----
(***************************************************************************)
(* The RSS aggregation and caching pipeline of profootball:                 *)
(*   src/src/lib/blobCache.js            the freshness cache                *)
(*   src/unnamed/part_002 (rssFetcher)   the feed fetcher and orchestrator  *)
(*   src/src/app/api/rss/route.js        GET /api/rss                       *)
(*   src/src/app/api/rss/refresh/route.js POST and GET /api/rss/refresh     *)
(*   src/src/utils/ratelimit.js          the in-memory rate limiter         *)
(*                                                                         *)
(* The handlers are async functions on one event loop: a step of the model *)
(* is one synchronous stretch of a handler, from the settling of the       *)
(* promise it awaited to its next await (or its return).  The effect of a  *)
(* store operation on the blob store happens in the step that resumes the  *)
(* awaiting handler.                                                        *)
(***************************************************************************)
EXTENDS Integers, Sequences, FiniteSets, TLC

(***************************************************************************)
(* Bounds of the model.                                                     *)
(***************************************************************************)
\* concurrent GET /api/rss requests
MaxReqs == 2
\* feeds of the registry (data/feeds.json after de-duplication)
NumFeeds == 1
\* clock advances of TickMs the model follows
MaxTicks == 1
\* POST /api/rss/refresh requests sent by other clients than GET's trigger
MaxExtPosts == 1

(***************************************************************************)
(* Program constants.                                                       *)
(***************************************************************************)
MinuteMs == 60 * 1000
\* blobCache.js:7-8
STALE_THRESHOLD == 15 * 60 * 1000
EXPIRE_THRESHOLD == 30 * 60 * 1000
\* route.js:42, checkRateLimit(`rss-${ip}`, 10); ratelimit.js:11 windowMs
RssLimit == 10
DefaultWindowMs == 60000
\* the chunk length: route.js:107 and refresh/route.js:32 pass 15, for a
\* registry of dozens of feeds; it is scaled down with the registry
BatchSize == 1

\* the clock moves in steps of five minutes, which puts ages exactly on both
\* thresholds; the clock at the initial state
TickMs == 5 * MinuteMs
T0 == 60 * MinuteMs

Reqs == 1..MaxReqs
Feeds == 1..NumFeeds
\* slots for background refresh runs (the code has no bound; two slots let
\* an overlap show if the flag failed to exclude it)
BgIds == 1..2
\* rate-limit keys: route.js:41 takes x-forwarded-for or "unknown"
RlKeys == {"rss-unknown"}

ErrTooMany == "Too many requests. Please try again later."
ErrFallback == "Fresh fetch failed, serving cached data"
ErrFailed == "Failed to fetch RSS feeds"

(***************************************************************************)
(* Optional values (null or an object) are sequences of length 0 or 1.      *)
(***************************************************************************)
Null == <<>>
Some(x) == <<x>>

\* Math.round of a non-negative quotient
RoundDiv(a, b) == (2 * a + b) \div (2 * b)

Min(a, b) == IF a < b THEN a ELSE b

(***************************************************************************)
(* blobCache.js                                                             *)
(***************************************************************************)
\* the run field names the orchestrator run that produced the aggregate
\* (0: a run before the initial state); it stands for the content of the
\* articles, which differs from run to run
Data(srcs, run) == [sources |-> srcs, run |-> run]

\* variant: the entry expires at the threshold, not after it
getCacheStatus_ExpiresAt(timestamp, t) ==
    LET age == t - timestamp
    IN  [age |-> age,
         ageMinutes |-> RoundDiv(age, 60000),
         isStale |-> age > STALE_THRESHOLD,
         isExpired |-> age >= EXPIRE_THRESHOLD]

\* variant: both thresholds inclusive (>= for >)
getCacheStatus_Inclusive(timestamp, t) ==
    LET age == t - timestamp
    IN  [age |-> age,
         ageMinutes |-> RoundDiv(age, 60000),
         isStale |-> age >= STALE_THRESHOLD,
         isExpired |-> age >= EXPIRE_THRESHOLD]

getCacheStatus(timestamp, t) ==
    LET age == t - timestamp
    IN  [age |-> age,
         ageMinutes |-> RoundDiv(age, 60000),
         isStale |-> age > STALE_THRESHOLD,
         isExpired |-> age > EXPIRE_THRESHOLD]

\* the entry setCachedFeeds builds
CacheEntry(data, t) ==
    [data |-> data, timestamp |-> t, feedCount |-> Len(data.sources)]

\* store.get: ok is whether the store was reachable and the read did not
\* throw; every failure is null, as an absent entry is
getCachedFeeds(store, ok) == IF ok THEN store ELSE Null

\* variant: the write does not replace an entry that exists
setCachedFeeds_KeepsOld(store, data, t, ok) ==
    IF ok /\ store = Null THEN Some(CacheEntry(data, t)) ELSE store

\* variant: an aggregate without sources is not written
setCachedFeeds_SkipsEmpty(store, data, t, ok) ==
    IF ok /\ data.sources # <<>> THEN Some(CacheEntry(data, t)) ELSE store

\* store.setJSON: the store after the call
setCachedFeeds(store, data, t, ok) ==
    IF ok THEN Some(CacheEntry(data, t)) ELSE store

\* store.delete: the store after the call
clearCache(store, ok) == IF ok THEN Null ELSE store

(***************************************************************************)
(* ratelimit.js                                                             *)
(***************************************************************************)
\* variant: the window is over at resetTime, not after it
checkRateLimit_ResetAt(reqmap, key, limit, windowMs, t) ==
    IF reqmap[key] = Null
    THEN [allowed |-> TRUE,
          requests |-> [reqmap EXCEPT ![key] =
                           Some([count |-> 1, resetTime |-> t + windowMs])]]
    ELSE LET data == reqmap[key][1]
         IN  IF t >= data.resetTime
             THEN [allowed |-> TRUE,
                   requests |-> [reqmap EXCEPT ![key] =
                           Some([count |-> 1, resetTime |-> t + windowMs])]]
             ELSE IF data.count >= limit
             THEN [allowed |-> FALSE, requests |-> reqmap]
             ELSE [allowed |-> TRUE,
                   requests |-> [reqmap EXCEPT ![key] =
                           Some([count |-> data.count + 1,
                                 resetTime |-> data.resetTime])]]

\* variant: a denied call is counted
checkRateLimit_CountsDenied(reqmap, key, limit, windowMs, t) ==
    IF reqmap[key] = Null
    THEN [allowed |-> TRUE,
          requests |-> [reqmap EXCEPT ![key] =
                           Some([count |-> 1, resetTime |-> t + windowMs])]]
    ELSE LET data == reqmap[key][1]
         IN  IF t > data.resetTime
             THEN [allowed |-> TRUE,
                   requests |-> [reqmap EXCEPT ![key] =
                           Some([count |-> 1, resetTime |-> t + windowMs])]]
             ELSE [allowed |-> data.count < limit,
                   requests |-> [reqmap EXCEPT ![key] =
                           Some([count |-> data.count + 1,
                                 resetTime |-> data.resetTime])]]

\* [allowed, requests]: the answer and the map after the call
checkRateLimit(reqmap, key, limit, windowMs, t) ==
    IF reqmap[key] = Null
    THEN [allowed |-> TRUE,
          requests |-> [reqmap EXCEPT ![key] =
                           Some([count |-> 1, resetTime |-> t + windowMs])]]
    ELSE LET data == reqmap[key][1]
         IN  IF t > data.resetTime
             THEN [allowed |-> TRUE,
                   requests |-> [reqmap EXCEPT ![key] =
                           Some([count |-> 1, resetTime |-> t + windowMs])]]
             ELSE IF data.count >= limit
             THEN [allowed |-> FALSE, requests |-> reqmap]
             ELSE [allowed |-> TRUE,
                   requests |-> [reqmap EXCEPT ![key] =
                           Some([count |-> data.count + 1,
                                 resetTime |-> data.resetTime])]]

(***************************************************************************)
(* rssFetcher (part_002): one run of fetchAllFeeds                          *)
(***************************************************************************)
\* the chunk feeds.slice(i, i + batchSize), as registry positions
Batch(i) == {f \in Feeds : i < f /\ f <= i + BatchSize}

\* the results of a settled chunk appended in chunk order: only the feeds
\* whose processFeed resolved to a value are pushed
RECURSIVE PushBatch(_, _, _, _)
PushBatch(srcs, f, last, okset) ==
    IF f > last THEN srcs
    ELSE PushBatch(IF f \in okset THEN Append(srcs, f) ELSE srcs,
                   f + 1, last, okset)

AfterBatch(srcs, i, okset) ==
    PushBatch(srcs, i + 1, Min(i + BatchSize, NumFeeds), okset)

(***************************************************************************)
(* rssFetcher (part_002): processFeed.  What the network and the parser    *)
(* do to one call is its "world": how fetch settles, whether the body can  *)
(* be read, how the two parses go, whether the feed-level fields can be    *)
(* computed (new URL(...) at :85 throws on a malformed link), and for each *)
(* item whether building its article throws.                               *)
(***************************************************************************)
\* items of a parsed feed
MaxItems == 2

ItemKinds == {"ok", "throws"}
ItemSeqs == UNION {[1..n -> ItemKinds] : n \in 0..MaxItems}

\* fetch rejects (network error, or the 10 s abort of :45) or resolves to a
\* response with a status
FetchOutcomes ==
    {[kind |-> k, status |-> 0] : k \in {"neterror", "abort"}}
    \cup {[kind |-> "response", status |-> st] : st \in {200, 404, 503}}

Worlds ==
    [fetch : FetchOutcomes,
     body : {"ok", "abort"},
     parse : {"ok", "sanitized", "fail"},
     header : {"ok", "throws"},
     items : ItemSeqs]

\* the outcome of a block of code: it returns a value or it throws
Return(v) == [throws |-> FALSE, value |-> v]
Throw == [throws |-> TRUE, value |-> Null]

\* response.ok
ResponseOk(status) == 200 <= status /\ status <= 299

\* variant: the callback of items.map without its try/catch
processItem_NoCatch(kind, j) ==
    IF kind = "throws" THEN Throw ELSE Return(Some(j))

\* part_002:99-131, the callback of items.map on item j: the article (here
\* the item's position) or null; an exception is caught and gives null
processItem(kind, j) ==
    LET body == IF kind = "throws" THEN Throw ELSE Return(Some(j))
    IN  IF body.throws THEN Return(Null) ELSE body

\* part_002:98-132: items.map(...).filter(Boolean); an exception that left
\* the callback would leave the map
RECURSIVE MapItems(_, _, _)
MapItems(items, j, acc) ==
    IF j > Len(items) THEN Return(acc)
    ELSE LET a == processItem(items[j], j)
         IN  IF a.throws THEN Throw
             ELSE MapItems(items, j + 1,
                           IF a.value = Null THEN acc
                           ELSE Append(acc, a.value[1]))

\* the promise an async function's outcome settles
Settle(outcome) ==
    IF outcome.throws THEN [status |-> "rejected", value |-> Null]
    ELSE [status |-> "fulfilled", value |-> outcome.value]

\* part_002:34-162
processFeed(feedConfig, w) ==
    LET inner ==
          IF w.fetch.kind # "response" THEN Throw
          ELSE IF ~ResponseOk(w.fetch.status) THEN Return(Null)
          ELSE IF w.body # "ok" THEN Throw
          ELSE IF w.parse = "fail" THEN Return(Null)
          ELSE IF w.header = "throws" THEN Throw
          ELSE LET articles == MapItems(w.items, 1, <<>>)
               IN  IF articles.throws THEN Throw
                   ELSE IF Len(articles.value) > 0
                   THEN Return(Some([source |-> feedConfig,
                                     articles |-> articles.value]))
                   ELSE Return(Null)
        \* catch (fetchError), :153-157
        caught == IF inner.throws THEN Return(Null) ELSE inner
        \* catch (feedError), :158-161
        outer == IF caught.throws THEN Return(Null) ELSE caught
    IN  Settle(outer)

(***************************************************************************)
(* rssFetcher (part_002): loadFeedConfigs and fetchAllFeeds over a         *)
(* configuration file that is an input.  A descriptor is its url and its   *)
(* position in the file (which stands for its other fields: two entries    *)
(* with one url need not agree on them).                                   *)
(***************************************************************************)
\* entries of data/feeds.json
MaxConfigLen == 3
\* the batchSize arguments tried: 1..MaxBatch
MaxBatch == 2

Urls == {"a", "b", "c"}

Descriptors(urlseq) == [j \in 1..Len(urlseq) |-> [url |-> urlseq[j], id |-> j]]

\* the file: Null when it cannot be read or parsed, or has no feeds array
ConfigFiles ==
    {Null} \cup
    {Some(Descriptors(us)) : us \in UNION {[1..n -> Urls] : n \in 0..MaxConfigLen}}

\* self.findIndex((f) => f.url === url), 1-based; 0 when there is none
RECURSIVE FindIndex(_, _, _)
FindIndex(feeds, url, j) ==
    IF j > Len(feeds) THEN 0
    ELSE IF feeds[j].url = url THEN j
    ELSE FindIndex(feeds, url, j + 1)

\* variant of the filter's test: of the entries with one url the last is
\* kept
IsFirstOfUrl_Last(feeds, j) ==
    \A k \in (j + 1)..Len(feeds) : feeds[k].url # feeds[j].url

\* part_002:190, index === self.findIndex((f) => f.url === feed.url)
IsFirstOfUrl(feeds, j) == j = FindIndex(feeds, feeds[j].url, 1)

\* part_002:189-191, feeds.filter(...) from position j on
RECURSIVE UniqueFrom(_, _)
UniqueFrom(feeds, j) ==
    IF j > Len(feeds) THEN <<>>
    ELSE IF IsFirstOfUrl(feeds, j)
    THEN <<feeds[j]>> \o UniqueFrom(feeds, j + 1)
    ELSE UniqueFrom(feeds, j + 1)

\* part_002:181-199
loadFeedConfigs(file) ==
    IF file = Null THEN <<>> ELSE UniqueFrom(file[1], 1)

\* a promise not yet created, pending, or settled
Unissued == [status |-> "unissued", value |-> Null]
Pending == [status |-> "pending", value |-> Null]

\* variant: feeds.slice(i, batchSize), the end taken for a length
Slice_EndIsLength(feeds, i, batchSize) ==
    {k \in 1..Len(feeds) : i < k /\ k <= batchSize}

\* part_002:217, feeds.slice(i, i + batchSize) as positions (i is 0-based)
Slice(feeds, i, batchSize) ==
    {k \in 1..Len(feeds) : i < k /\ k <= i + batchSize}

\* part_002:223, batch.map((feed) => processFeed(feed, parser))
IssueBatch(promises, batch) ==
    [k \in 1..Len(promises) |-> IF k \in batch THEN Pending ELSE promises[k]]

\* variant: the loop goes on as soon as one fetch of the chunk has settled
BatchSettled_Any(promises, batch) ==
    \E k \in batch : promises[k].status # "pending"

\* part_002:224, await Promise.allSettled(batchPromises) resumes
BatchSettled(promises, batch) ==
    \A k \in batch : promises[k].status # "pending"

\* part_002:227, the results the forEach pushes
Pushed(result) == result.status = "fulfilled" /\ result.value # Null

\* part_002:226-232, batchResults.forEach in the order of the chunk
RECURSIVE PushResults(_, _, _, _)
PushResults(sources, promises, k, last) ==
    IF k > last THEN sources
    ELSE PushResults(IF Pushed(promises[k])
                     THEN Append(sources, promises[k].value[1])
                     ELSE sources,
                     promises, k + 1, last)

(***************************************************************************)
(* route.js                                                                 *)
(***************************************************************************)
createCacheMetadata(age, stale, refreshing, error) ==
    [age |-> age,
     ageMinutes |-> RoundDiv(age, 60000),
     stale |-> stale,
     refreshing |-> refreshing,
     error |-> error]

\* a response: the HTTP status and the JSON body's fields; an absent field
\* is Null (error: "")
Response(status, data, meta, error) ==
    [status |-> status,
     sources |-> IF data = Null THEN Null ELSE Some(data[1].sources),
     run |-> IF data = Null THEN -1 ELSE data[1].run,
     meta |-> meta,
     error |-> error]

\* route.js:43-46
RateLimitedResponse == Response(429, Null, Null, ErrTooMany)

\* variant: the fresh entry is served flagged stale
FreshResponse_Stale(cached, status) ==
    Response(200, Some(cached.data),
             Some(createCacheMetadata(status.age, TRUE, FALSE, "")), "")

\* route.js:64-74
FreshResponse(cached, status) ==
    Response(200, Some(cached.data),
             Some(createCacheMetadata(status.age, FALSE, FALSE, "")), "")

\* variant: the stale response does not announce the refresh
StaleResponse_NotRefreshing(cached, status) ==
    Response(200, Some(cached.data),
             Some(createCacheMetadata(status.age, TRUE, FALSE, "")), "")

\* route.js:84-95
StaleResponse(cached, status) ==
    Response(200, Some(cached.data),
             Some(createCacheMetadata(status.age, TRUE, TRUE, "")), "")

\* route.js:115-125
FetchedResponse(freshData) ==
    Response(200, Some(freshData),
             Some(createCacheMetadata(0, FALSE, FALSE, "")), "")

\* variant: the catch block without the cached fallback
CatchResponse_NoFallback(cached, t) ==
    Response(500, Some(Data(<<>>, -1)), Null, ErrFailed)

\* variant: the empty result is sent without its status ({status: 500}
\* left out)
CatchResponse_NoStatus(cached, t) ==
    IF cached # Null
    THEN Response(200, Some(cached[1].data),
                  Some(createCacheMetadata(t - cached[1].timestamp,
                                           TRUE, FALSE, ErrFallback)), "")
    ELSE Response(200, Some(Data(<<>>, -1)), Null, ErrFailed)

\* route.js:126-151, the catch block
CatchResponse(cached, t) ==
    IF cached # Null
    THEN Response(200, Some(cached[1].data),
                  Some(createCacheMetadata(t - cached[1].timestamp,
                                           TRUE, FALSE, ErrFallback)), "")
    ELSE Response(500, Some(Data(<<>>, -1)), Null, ErrFailed)


(***************************************************************************)
(* refresh/route.js: the guard and the cleanup of the background refresh    *)
(***************************************************************************)
\* variant: the guard is missing
PostSkipped_Never(flag) == FALSE

\* refresh/route.js:15, the POST returns "skipped" and does nothing else
PostSkipped(flag) == flag

\* variant: the flag is cleared at the end of the try block, not in finally
FlagAfterRefresh_NotOnThrow(flag, outcome) ==
    IF outcome = "threw" THEN flag ELSE FALSE

\* refresh/route.js:42-47: the flag after the run's try/catch/finally, for a
\* run that ended "completed" (written), "failed" (write refused) or "threw"
FlagAfterRefresh(flag, outcome) == FALSE

(***************************************************************************)
(* State                                                                    *)
(***************************************************************************)
VARIABLES
    now,                \* Date.now()
    cache,              \* the blob store's entry under CACHE_KEY, or Null
    requests,           \* ratelimit.js: the Map of the limiter
    refreshInProgress,  \* refresh/route.js:6
    req,                \* each GET /api/rss request: its position and locals
    resp,               \* each GET /api/rss request's response, or Null
    trig,               \* each request's POST to /api/rss/refresh
    bg,                 \* the background refresh runs (the async IIFE)
    eff,                \* history: what each GET request did to the pipeline
    bgHist,             \* history: refresh runs started and ended, last outcome
    ext,                \* POSTs of other clients: how many, the last status
    calls,              \* blobCache.js: the classification calls made so far
    feedIn,             \* processFeed: the world of the call under study
    feedOut,            \* processFeed: the promise it returned, once settled
    config,             \* data/feeds.json as loadFeedConfigs finds it
    fa,                 \* fetchAllFeeds: the run under study
    pend,               \* blobCache.js: the cache call awaiting the store
    last,               \* blobCache.js: the cache call that returned last
    prev,               \* blobCache.js: the one that returned before it
    posts,              \* refresh/route.js: the POSTs answered, in order
    statusResp,         \* refresh/route.js: the last answer of the status GET
    fld,                \* processFeed: the fields of a parsed feed resolved
    txt,                \* the text functions: the call under study
    rlcfg,              \* checkRateLimit: the limit and window under study
    rlog                \* checkRateLimit: the calls made, in order

\* the state of the request pipeline, and the state the specifications of
\* the library functions add to it
pipeRest == <<requests, refreshInProgress, req, resp, trig, bg, eff, bgHist,
              ext>>
pipeVars == <<now, cache, pipeRest>>
statusVars == <<calls>>
feedVars == <<feedIn, feedOut>>
fetchVars == <<config, fa>>
storeVars == <<pend, last, prev>>
refreshVars == <<posts, statusResp>>
fieldVars == <<fld>>
textVars == <<txt>>
limitVars == <<rlcfg, rlog>>
otherVars == <<fieldVars, textVars, limitVars>>
libVars == <<statusVars, feedVars, fetchVars, storeVars, refreshVars,
             otherVars>>
\* what the specification of one library function leaves alone
notStatus == <<feedVars, fetchVars, storeVars, refreshVars, otherVars>>
notFeed == <<statusVars, fetchVars, storeVars, refreshVars, otherVars>>
notFetch == <<statusVars, feedVars, storeVars, refreshVars, otherVars>>
notStore == <<statusVars, feedVars, fetchVars, refreshVars, otherVars>>
notRefresh == <<statusVars, feedVars, fetchVars, storeVars, otherVars>>
oldVars == <<statusVars, feedVars, fetchVars, storeVars, refreshVars>>
notField == <<oldVars, textVars, limitVars>>
notText == <<oldVars, fieldVars, limitVars>>
notLimit == <<oldVars, fieldVars, textVars>>
vars == <<pipeVars, libVars>>

AllFeeds == [f \in Feeds |-> f]

\* stamp is the Date.now() of setCachedFeeds (blobCache.js:58), read when
\* the function is called, before it awaits the store
IdleReq == [pc |-> "idle", forceClear |-> FALSE, cached |-> Null,
            i |-> 0, sources |-> <<>>, stamp |-> 0]
IdleBg == [pc |-> "idle", i |-> 0, sources |-> <<>>, run |-> 0, stamp |-> 0]
\* history of a request: clearCache asked for, what its cache read returned
\* (sources, run and age at the read), the calls it made, whether its fetch
\* threw, and the store's entry right after its successful write
NoEff == [forced |-> FALSE, seen |-> Null, fetches |-> 0, writes |-> 0,
          clears |-> 0, triggers |-> 0, threw |-> FALSE, written |-> Null]
Seen(cached, t) ==
    IF cached = Null THEN Null
    ELSE Some([sources |-> cached[1].data.sources,
               run |-> cached[1].data.run,
               age |-> t - cached[1].timestamp])

\* no library function is under study
IdleWorld ==
    [fetch |-> [kind |-> "neterror", status |-> 0], body |-> "ok",
     parse |-> "ok", header |-> "ok", items |-> <<>>]

\* fetchAllFeeds not called: its locals, the promises of its processFeed
\* calls (by registry position) and the promise it returned
IdleFa == [pc |-> "idle", batchSize |-> 0, feeds |-> <<>>, i |-> 0,
           sources |-> <<>>, promises |-> <<>>, result |-> Null]

StatusIdle == calls = {}
FeedIdle == feedIn = IdleWorld /\ feedOut = Null
FetchIdle == config = Null /\ fa = IdleFa
StoreIdle == pend = Null /\ last = Null /\ prev = Null
RefreshIdle == posts = <<>> /\ statusResp = Null

\* the parsed feed of the idle state, and the resolution of its fields not
\* started
IdleParsed == [link |-> Null, lastBuildDate |-> Null, items |-> <<>>]
IdleFld == [pc |-> "idle", parsed |-> IdleParsed, feedLink |-> Null,
            feedUpdatedAt |-> Null, at |-> 0, j |-> 0, articles |-> <<>>,
            result |-> Null]
IdleTxt == [fn |-> "none", input |-> <<>>, output |-> Null]

FieldIdle == fld = IdleFld
TextIdle == txt = IdleTxt
LimitIdle == rlcfg = [limit |-> 0, windowMs |-> 0] /\ rlog = <<>>
OtherIdle == FieldIdle /\ TextIdle /\ LimitIdle

LibIdle ==
    /\ StatusIdle /\ FeedIdle /\ FetchIdle /\ StoreIdle /\ RefreshIdle
    /\ OtherIdle

\* ages of the entry a former process left in the store
InitAges == {15 * MinuteMs, 30 * MinuteMs, 40 * MinuteMs}

Init ==
    /\ now = T0
    /\ cache \in {Null} \cup
                 {Some(CacheEntry(Data(AllFeeds, 0), T0 - a)) : a \in InitAges}
    /\ requests \in
         [RlKeys -> {Null, Some([count |-> RssLimit - 1,
                                 resetTime |-> T0 + DefaultWindowMs])}]
    /\ refreshInProgress = FALSE
    /\ req = [r \in Reqs |-> IdleReq]
    /\ resp = [r \in Reqs |-> Null]
    /\ trig = [r \in Reqs |-> "none"]
    /\ bg = [b \in BgIds |-> IdleBg]
    /\ eff = [r \in Reqs |-> NoEff]
    /\ bgHist = [started |-> 0, last |-> "none"]
    /\ ext = [posts |-> 0, refreshing |-> 0, last |-> "none"]
    /\ LibIdle

\* the run identity of a GET request's blocking fetch, of the n-th refresh
GetRun(r) == r
BgRun(n) == MaxReqs + n

(***************************************************************************)
(* GET /api/rss (route.js:36-152)                                           *)
(***************************************************************************)
\* route.js:158-175: the POST is sent and not awaited
triggerBackgroundRefresh(r) == trig' = [trig EXCEPT ![r] = "inflight"]

\* the handler returns: its locals are gone
Respond(r, response) ==
    /\ resp' = [resp EXCEPT ![r] = Some(response)]
    /\ req' = [req EXCEPT ![r] = [IdleReq EXCEPT !.pc = "done"]]

\* route.js:37-53: rate limit, then the first store call is issued.
\* Requests are numbered in the order they arrive.
GetBegin(r, forceClear) ==
    /\ req[r].pc = "idle"
    /\ \A q \in Reqs : q < r => req[q].pc # "idle"
    /\ LET rl == checkRateLimit(requests, "rss-unknown", RssLimit,
                                DefaultWindowMs, now)
       IN  /\ requests' = rl.requests
           /\ IF ~rl.allowed
              THEN /\ Respond(r, RateLimitedResponse)
                   /\ eff' = eff
              ELSE /\ req' = [req EXCEPT ![r].pc =
                                 IF forceClear THEN "clear" ELSE "read",
                                         ![r].forceClear = forceClear]
                   /\ eff' = [eff EXCEPT ![r].forced = forceClear]
                   /\ resp' = resp
    /\ UNCHANGED <<now, cache, refreshInProgress, trig, bg, bgHist, ext,
                   libVars>>

\* route.js:50-53: await clearCache() settles, getCachedFeeds() is issued
GetClear(r) ==
    /\ req[r].pc = "clear"
    /\ \E ok \in BOOLEAN : cache' = clearCache(cache, ok)
    /\ req' = [req EXCEPT ![r].pc = "read"]
    /\ eff' = [eff EXCEPT ![r].clears = @ + 1]
    /\ UNCHANGED <<now, requests, refreshInProgress, resp, trig, bg, bgHist,
                   ext, libVars>>

\* route.js:104-107: the blocking fetch starts
StartFetch(r, cached) ==
    /\ req' = [req EXCEPT ![r].pc = "fetch", ![r].cached = cached,
                          ![r].i = 0, ![r].sources = <<>>]
    /\ eff' = [eff EXCEPT ![r].fetches = @ + 1,
                          ![r].seen = Seen(cached, now)]
    /\ UNCHANGED <<resp, trig>>

\* route.js:56-102: await getCachedFeeds() settles and the entry is classified
GetRead(r) ==
    /\ req[r].pc = "read"
    /\ \E ok \in BOOLEAN :
         LET cached == getCachedFeeds(cache, ok)
         IN  IF cached # Null /\ cached[1].timestamp # 0 /\ ~req[r].forceClear
             THEN LET status == getCacheStatus(cached[1].timestamp, now)
                  IN  IF ~status.isStale /\ ~status.isExpired
                      THEN /\ Respond(r, FreshResponse(cached[1], status))
                           /\ eff' = [eff EXCEPT
                                        ![r].seen = Seen(cached, now)]
                           /\ trig' = trig
                      ELSE IF status.isStale /\ ~status.isExpired
                      THEN /\ triggerBackgroundRefresh(r)
                           /\ eff' = [eff EXCEPT
                                        ![r].seen = Seen(cached, now),
                                        ![r].triggers = @ + 1]
                           /\ Respond(r, StaleResponse(cached[1], status))
                      ELSE StartFetch(r, cached)
             ELSE StartFetch(r, cached)
    /\ UNCHANGED <<now, cache, requests, refreshInProgress, bg, bgHist, ext,
                   libVars>>

\* one chunk of fetchAllFeeds settles (part_002:216-233); okset are the feeds
\* of the chunk whose processFeed resolved to a result.  After the last chunk
\* the aggregate is returned and setCachedFeeds is issued (route.js:113).
GetFetchBatch(r) ==
    /\ req[r].pc = "fetch"
    /\ \E okset \in SUBSET Batch(req[r].i) :
         req' = [req EXCEPT
                   ![r].sources = AfterBatch(@, req[r].i, okset),
                   ![r].i = @ + BatchSize,
                   ![r].pc = IF req[r].i + BatchSize >= NumFeeds
                             THEN "write" ELSE "fetch",
                   ![r].stamp = IF req[r].i + BatchSize >= NumFeeds
                                THEN now ELSE @]
    /\ UNCHANGED <<now, cache, requests, refreshInProgress, resp, trig, bg,
                   eff, bgHist, ext, libVars>>

\* the fetch throws (the orchestrator itself raises): route.js:126-151
GetFetchThrow(r) ==
    /\ req[r].pc = "fetch"
    /\ Respond(r, CatchResponse(req[r].cached, now))
    /\ eff' = [eff EXCEPT ![r].threw = TRUE]
    /\ UNCHANGED <<now, cache, requests, refreshInProgress, trig, bg, bgHist,
                   ext, libVars>>

\* route.js:113-125: await setCachedFeeds(freshData) settles, the response
GetWrite(r) ==
    /\ req[r].pc = "write"
    /\ LET freshData == Data(req[r].sources, GetRun(r))
       IN  /\ \E ok \in BOOLEAN :
                /\ cache' = setCachedFeeds(cache, freshData,
                                           req[r].stamp, ok)
                /\ eff' = [eff EXCEPT ![r].writes = @ + 1,
                             ![r].written = IF ok THEN cache' ELSE Null]
           /\ Respond(r, FetchedResponse(freshData))
    /\ UNCHANGED <<now, requests, refreshInProgress, trig, bg, bgHist, ext,
                   libVars>>


(***************************************************************************)
(* POST /api/rss/refresh (refresh/route.js:13-62)                           *)
(***************************************************************************)
\* variant: the early return answers like the other
PostStatus_AlwaysRefreshing == "refreshing"

\* refresh/route.js:57-61 and 17-20: the status of the response
PostStatus == IF PostSkipped(refreshInProgress) THEN "skipped" ELSE "refreshing"

\* refresh/route.js:24-32: the flag is set and the async IIFE runs up to its
\* first await, inside fetchAllFeeds
StartRefresh ==
    /\ refreshInProgress' = TRUE
    /\ \E b \in BgIds :
         /\ bg[b].pc = "idle"
         /\ \A c \in BgIds : c < b => bg[c].pc # "idle"
         /\ bg' = [bg EXCEPT ![b] = [IdleBg EXCEPT
                                       !.pc = "fetch",
                                       !.run = BgRun(bgHist.started + 1)]]
    /\ bgHist' = [bgHist EXCEPT !.started = @ + 1]

\* the handler, one synchronous stretch: refresh/route.js:15-61
POST ==
    IF PostSkipped(refreshInProgress)
    THEN UNCHANGED <<refreshInProgress, bg, bgHist>>
    ELSE StartRefresh

\* the POST of a request's trigger reaches the handler (route.js:161-171)
TriggerDeliver(r) ==
    /\ trig[r] = "inflight"
    /\ POST
    /\ trig' = [trig EXCEPT ![r] = PostStatus]
    /\ UNCHANGED <<now, cache, requests, req, resp, eff, ext, libVars>>

\* the POST of a request's trigger fails on the way (route.js:172-174)
TriggerFail(r) ==
    /\ trig[r] = "inflight"
    /\ trig' = [trig EXCEPT ![r] = "failed"]
    /\ UNCHANGED <<now, cache, requests, refreshInProgress, req, resp, bg,
                   eff, bgHist, ext, libVars>>

\* another client POSTs to /api/rss/refresh
ExternalPost ==
    /\ ext.posts < MaxExtPosts
    /\ POST
    /\ ext' = [posts |-> ext.posts + 1,
               refreshing |-> ext.refreshing +
                              (IF PostStatus = "refreshing" THEN 1 ELSE 0),
               last |-> PostStatus]
    /\ UNCHANGED <<now, cache, requests, req, resp, trig, eff, libVars>>

\* refresh/route.js:42-47: the run ends; its slot is free again
EndRefresh(b, outcome) ==
    /\ refreshInProgress' = FlagAfterRefresh(refreshInProgress, outcome)
    /\ bg' = [bg EXCEPT ![b] = IdleBg]
    /\ bgHist' = [bgHist EXCEPT !.last = outcome]

\* one chunk of the refresh's fetchAllFeeds settles (refresh/route.js:32);
\* after the last chunk setCachedFeeds is issued (refresh/route.js:33)
BgFetchBatch(b) ==
    /\ bg[b].pc = "fetch"
    /\ \E okset \in SUBSET Batch(bg[b].i) :
         bg' = [bg EXCEPT
                  ![b].sources = AfterBatch(@, bg[b].i, okset),
                  ![b].i = @ + BatchSize,
                  ![b].pc = IF bg[b].i + BatchSize >= NumFeeds
                            THEN "write" ELSE "fetch",
                  ![b].stamp = IF bg[b].i + BatchSize >= NumFeeds
                               THEN now ELSE @]
    /\ UNCHANGED <<now, cache, requests, refreshInProgress, req, resp, trig,
                   eff, bgHist, ext, libVars>>

\* the refresh's fetch throws: catch, then finally (refresh/route.js:42-47)
BgFetchThrow(b) ==
    /\ bg[b].pc = "fetch"
    /\ EndRefresh(b, "threw")
    /\ UNCHANGED <<now, cache, requests, req, resp, trig, eff, ext, libVars>>

\* await setCachedFeeds(data) settles, the run returns through finally
\* (refresh/route.js:33-47)
BgWrite(b) ==
    /\ bg[b].pc = "write"
    /\ \E ok \in BOOLEAN :
         /\ cache' = setCachedFeeds(cache, Data(bg[b].sources, bg[b].run),
                                    bg[b].stamp, ok)
         /\ EndRefresh(b, IF ok THEN "completed" ELSE "failed")
    /\ UNCHANGED <<now, requests, req, resp, trig, eff, ext, libVars>>

(***************************************************************************)
(* The clock                                                                *)
(***************************************************************************)
Tick ==
    /\ now < T0 + MaxTicks * TickMs
    /\ now' = now + TickMs
    /\ UNCHANGED <<cache, requests, refreshInProgress, req, resp, trig, bg,
                   eff, bgHist, ext, libVars>>

Next ==
    \/ \E r \in Reqs, forceClear \in BOOLEAN : GetBegin(r, forceClear)
    \/ \E r \in Reqs : GetClear(r)
    \/ \E r \in Reqs : GetRead(r)
    \/ \E r \in Reqs : GetFetchBatch(r)
    \/ \E r \in Reqs : GetFetchThrow(r)
    \/ \E r \in Reqs : GetWrite(r)
    \/ \E r \in Reqs : TriggerDeliver(r)
    \/ \E r \in Reqs : TriggerFail(r)
    \/ ExternalPost
    \/ \E b \in BgIds : BgFetchBatch(b)
    \/ \E b \in BgIds : BgFetchThrow(b)
    \/ \E b \in BgIds : BgWrite(b)
    \/ Tick

Spec == Init /\ [][Next]_vars

\* the event loop resumes a refresh whose awaited promise settled: each feed
\* fetch settles (10 s abort, part_002:45) and so does the store call
BgStep == \E b \in BgIds : BgFetchBatch(b) \/ BgFetchThrow(b) \/ BgWrite(b)

LiveSpec == Spec /\ WF_vars(BgStep)

TypeOK ==
    /\ refreshInProgress \in BOOLEAN
    /\ \A r \in Reqs : req[r].pc \in
           {"idle", "clear", "read", "fetch", "write", "done"}
    /\ \A b \in BgIds : bg[b].pc \in {"idle", "fetch", "write"}


(***************************************************************************)
(* Vocabulary of the properties.  The age classes are written out here     *)
(* from their definition in words, not through getCacheStatus.             *)
(***************************************************************************)
IsFreshAge(a) == a <= 15 * MinuteMs
IsStaleAge(a) == 15 * MinuteMs < a /\ a <= 30 * MinuteMs
IsExpiredAge(a) == a > 30 * MinuteMs

Running == {b \in BgIds : bg[b].pc # "idle"}

\* the cache read of r has settled (r was not turned away by the limiter)
ReadDone(r) ==
    \/ req[r].pc \in {"fetch", "write"}
    \/ resp[r] # Null /\ resp[r][1].status # 429

\* the read of r, without clearCache, returned an entry of this age class
SawFresh(r) ==
    eff[r].seen # Null /\ ~eff[r].forced /\ IsFreshAge(eff[r].seen[1].age)
SawStale(r) ==
    eff[r].seen # Null /\ ~eff[r].forced /\ IsStaleAge(eff[r].seen[1].age)
SawExpired(r) ==
    eff[r].seen # Null /\ ~eff[r].forced /\ IsExpiredAge(eff[r].seen[1].age)

\* the response x carries the aggregate (srcs, run) with status 200 and
\* these _cache flags
IsFeedResponse(x, srcs, run, stale, refreshing) ==
    /\ x.status = 200
    /\ x.sources = Some(srcs)
    /\ x.run = run
    /\ x.error = ""
    /\ x.meta # Null
    /\ x.meta[1].stale = stale
    /\ x.meta[1].refreshing = refreshing

\* the blocking fetch of r returned (did not throw) and r has responded
FetchReturned(r) == resp[r] # Null /\ eff[r].fetches = 1 /\ ~eff[r].threw

\* the step in which the blocking fetch of r returned and its write settles
WriteStep(r) == req[r].pc = "write" /\ req'[r].pc = "done"
\* the step in which request r's cache read settles
ReadStep(r) == req[r].pc = "read" /\ req'[r].pc # "read"

(***************************************************************************)
(* C1: a GET without clearCache whose read returned a Stale entry (15 min  *)
(* < age <= 30 min) has answered in the step of the read, without any feed *)
(* fetch, with the entry's data unmodified, stale = true and refreshing =  *)
(* true, and has sent exactly one POST to /api/rss/refresh; whatever       *)
(* became of that POST, the response is this one.                          *)
(***************************************************************************)
C1_StaleServedOneTrigger ==
    \A r \in Reqs :
        SawStale(r) =>
            /\ resp[r] # Null
            /\ IsFeedResponse(resp[r][1], eff[r].seen[1].sources,
                              eff[r].seen[1].run, TRUE, TRUE)
            /\ resp[r][1].meta[1].age = eff[r].seen[1].age
            /\ resp[r][1].meta[1].error = ""
            /\ trig[r] \in {"inflight", "refreshing", "skipped", "failed"}
            /\ eff[r].triggers = 1
            /\ eff[r].fetches = 0
            /\ eff[r].writes = 0

\* a stale answer whose trigger was skipped, and one whose trigger was lost
C1_Witness ==
    \E r, q \in Reqs :
        /\ SawStale(r) /\ trig[r] = "skipped"
        /\ SawStale(q) /\ trig[q] = "failed"

(***************************************************************************)
(* C2: the step in which a GET without clearCache reads a Fresh entry (age *)
(* <= 15 min) answers with the entry's data, stale = false and refreshing  *)
(* = false, and changes neither the cache, nor any trigger, nor            *)
(* refreshInProgress, nor a refresh run; the request has started no fetch  *)
(* and made no write, no clear and no trigger.                             *)
(***************************************************************************)
C2_FreshNoSideEffect ==
    [][\A r \in Reqs :
         (ReadStep(r) /\ SawFresh(r)')
         => /\ resp'[r] # Null
            /\ IsFeedResponse(resp'[r][1], cache[1].data.sources,
                              cache[1].data.run, FALSE, FALSE)
            /\ resp'[r][1].meta[1].age = now - cache[1].timestamp
            /\ eff'[r] = [NoEff EXCEPT !.seen = Seen(cache, now)]
            /\ UNCHANGED <<cache, trig, refreshInProgress, bg, bgHist>>
      ]_vars

\* an entry answered as Fresh at the age of exactly 15 minutes
C2_Witness ==
    \E r \in Reqs :
        /\ SawFresh(r)
        /\ eff[r].seen[1].age = 15 * MinuteMs
        /\ resp[r] # Null
        /\ IsFeedResponse(resp[r][1], AllFeeds, 0, FALSE, FALSE)

(***************************************************************************)
(* C3 as stated: a blocking fetch that returned has written its result to  *)
(* the cache before the response: the store held exactly the returned      *)
(* sources.                                                                *)
(***************************************************************************)
C3_Original ==
    \A r \in Reqs :
        FetchReturned(r) =>
            /\ eff[r].written # Null
            /\ Some(eff[r].written[1].data.sources) = resp[r][1].sources

(***************************************************************************)
(* C3, amended: a read that finds no entry or an Expired one starts one    *)
(* orchestrator run and the request is not answered before the run ends;   *)
(* when the run returns, the handler attempts one cache write of the       *)
(* result and responds with that result, age = 0, stale = false,           *)
(* refreshing = false, whether or not the write succeeded; when the write  *)
(* succeeded the store then held exactly the returned sources (feedCount   *)
(* their number).                                                          *)
(***************************************************************************)
C3_FetchWriteReturn ==
    \A r \in Reqs :
        /\ (ReadDone(r) /\ (eff[r].seen = Null \/ SawExpired(r)))
           => eff[r].fetches = 1
        /\ req[r].pc \in {"fetch", "write"} => resp[r] = Null
        /\ FetchReturned(r)
           => /\ resp[r][1].sources # Null
              /\ IsFeedResponse(resp[r][1], resp[r][1].sources[1], GetRun(r),
                                FALSE, FALSE)
              /\ resp[r][1].meta[1].age = 0
              /\ resp[r][1].meta[1].error = ""
              /\ eff[r].writes = 1
              /\ eff[r].written # Null
                 => /\ eff[r].written[1].data =
                          Data(resp[r][1].sources[1], GetRun(r))
                    /\ eff[r].written[1].feedCount =
                          Len(resp[r][1].sources[1])
                    /\ eff[r].written[1].timestamp <= now

\* every feed succeeded, over an Expired entry: the response and the cache
\* both hold the whole registry
C3_Witness ==
    \E r \in Reqs :
        /\ SawExpired(r)
        /\ FetchReturned(r)
        /\ resp[r][1].sources = Some(AllFeeds)
        /\ cache = eff[r].written
        /\ cache # Null
        /\ cache[1].data = Data(AllFeeds, GetRun(r))
        /\ cache[1].feedCount = NumFeeds

(***************************************************************************)
(* C4: at most one background refresh runs at any time, one runs exactly   *)
(* while refreshInProgress is true, and only the POSTs answered            *)
(* "refreshing" have started a run: a POST handled while the flag is true  *)
(* is answered "skipped" and starts nothing.                               *)
(***************************************************************************)
C4_OneRefreshAtATime ==
    /\ Cardinality(Running) <= 1
    /\ refreshInProgress <=> Running # {}
    /\ bgHist.started =
         Cardinality({r \in Reqs : trig[r] = "refreshing"}) + ext.refreshing

\* a POST of a trigger and a POST of another client both skipped while a
\* refresh runs
C4_Witness ==
    /\ Cardinality(Running) = 1
    /\ \E r \in Reqs : trig[r] = "skipped"
    /\ ext.last = "skipped"
    /\ bgHist.started = 1

(***************************************************************************)
(* C5: while a background refresh runs the flag is true (it is set before  *)
(* the run's first step), and whenever the flag is true it is eventually   *)
(* false again, however the run ends.  Checked under LiveSpec.             *)
(***************************************************************************)
C5_FlagSetThenCleared ==
    /\ [](\A b \in BgIds : bg[b].pc # "idle" => refreshInProgress)
    /\ (refreshInProgress ~> ~refreshInProgress)

\* a refresh whose fetch threw has ended and the flag is false
C5_Witness ==
    /\ bgHist.started >= 1
    /\ bgHist.last = "threw"
    /\ ~refreshInProgress

(***************************************************************************)
(* C6 as stated: two GETs answered from the same Stale entry, both         *)
(* triggers handled, no other POST handled: exactly one refresh run was    *)
(* started (stated for refresh runs that end with their cache write done). *)
(***************************************************************************)
SameStaleEntry(r, q) ==
    /\ r # q
    /\ SawStale(r) /\ SawStale(q)
    /\ eff[r].seen[1].run = eff[q].seen[1].run

Delivered(r) == trig[r] \in {"refreshing", "skipped"}

\* no POST but the triggers of r and q has started a refresh
NoOtherStart(r, q) ==
    /\ ext.refreshing = 0
    /\ \A x \in Reqs \ {r, q} : trig[x] # "refreshing"

C6_Original ==
    \A r, q \in Reqs :
        (/\ SameStaleEntry(r, q) /\ Delivered(r) /\ Delivered(q)
         /\ NoOtherStart(r, q) /\ bgHist.last = "completed")
        => bgHist.started = 1

(***************************************************************************)
(* C6, amended: of two GETs answered from the same Stale entry, the second *)
(* trigger starts no refresh when it is handled while the run started by   *)
(* the first is in progress, and starts one more run when it is handled    *)
(* after that run has ended.  With both triggers handled and no other POST *)
(* having started a run, one run or two were started, as many as triggers  *)
(* were answered "refreshing", and two only one after the other.           *)
(***************************************************************************)
C6_SecondTriggerSkippedWhileRunning ==
    \A r, q \in Reqs :
        (/\ SameStaleEntry(r, q) /\ Delivered(r) /\ Delivered(q)
         /\ NoOtherStart(r, q))
        => /\ bgHist.started \in {1, 2}
           /\ bgHist.started =
                Cardinality({x \in {r, q} : trig[x] = "refreshing"})
           /\ Cardinality(Running) <= 1
           /\ bgHist.started = 2 => bgHist.last # "none"

\* the second trigger arrived while the first's run was in progress
C6_Witness ==
    \E r, q \in Reqs :
        /\ SameStaleEntry(r, q)
        /\ trig[r] = "refreshing" /\ trig[q] = "skipped"
        /\ bgHist.started = 1 /\ ext.posts = 0

(***************************************************************************)
(* C7 as stated: a GET that read an Expired entry and whose fresh fetch    *)
(* came back with every feed failed answers with the entry's payload,      *)
(* _cache.error set, stale = true, status 200.                             *)
(***************************************************************************)
C7_Original ==
    [][\A r \in Reqs :
         (WriteStep(r) /\ req[r].sources = <<>> /\ SawExpired(r))
         => /\ resp'[r] # Null
            /\ IsFeedResponse(resp'[r][1], eff[r].seen[1].sources,
                              eff[r].seen[1].run, TRUE, FALSE)
            /\ resp'[r][1].meta[1].error # ""
      ]_vars

(***************************************************************************)
(* C8: a request whose blocking fetch threw has written nothing to the     *)
(* cache; with an entry read (even an Expired one) its response is that    *)
(* entry's data, stale = true, refreshing = false, an error string in      *)
(* _cache, status 200; with no entry read it is {sources: [], error}.      *)
(***************************************************************************)
C8_ThrowFallsBack ==
    \A r \in Reqs :
        eff[r].threw =>
            /\ resp[r] # Null
            /\ eff[r].writes = 0
            /\ IF eff[r].seen # Null
               THEN /\ IsFeedResponse(resp[r][1], eff[r].seen[1].sources,
                                      eff[r].seen[1].run, TRUE, FALSE)
                    /\ resp[r][1].meta[1].error # ""
                    /\ resp[r][1].meta[1].age >= eff[r].seen[1].age
               ELSE /\ resp[r][1].sources = Some(<<>>)
                    /\ resp[r][1].error # ""
                    /\ resp[r][1].meta = Null

\* one request fell back on an Expired entry, another had no entry
C8_Witness ==
    \E r, q \in Reqs :
        /\ eff[r].threw /\ SawExpired(r)
        /\ resp[r][1].meta[1].error = ErrFallback
        /\ eff[q].threw /\ eff[q].seen = Null
        /\ resp[q][1].error = ErrFailed

(***************************************************************************)
(* C9 as stated: a GET with clearCache=true never answers with the data of *)
(* the entry that was in the cache before it (here: the entry of the       *)
(* initial state, run 0).                                                  *)
(***************************************************************************)
C9_Original ==
    \A r \in Reqs :
        (eff[r].forced /\ resp[r] # Null) => resp[r][1].run # 0

(***************************************************************************)
(* C10 as stated: every GET ends with a response, and a request whose own  *)
(* fetch brought nothing (an empty aggregate or a throw) is answered with  *)
(* cached data flagged stale or with {sources: [], error}.                 *)
(***************************************************************************)
C10_Original ==
    \A r \in Reqs :
        /\ req[r].pc = "done" => resp[r] # Null
        /\ (resp[r] # Null /\ eff[r].fetches > 0)
           => \/ /\ resp[r][1].sources # Null
                 /\ resp[r][1].sources[1] # <<>>
                 /\ resp[r][1].run = GetRun(r)
              \/ /\ resp[r][1].meta # Null
                 /\ resp[r][1].meta[1].stale
                 /\ resp[r][1].meta[1].error # ""
              \/ /\ resp[r][1].sources = Some(<<>>)
                 /\ resp[r][1].error # ""

\* the part of C10 that holds: no exception escapes, a request is done
\* exactly when it has its response
C10_AlwaysAnswered ==
    \A r \in Reqs : req[r].pc = "done" <=> resp[r] # Null

(***************************************************************************)
(* C11 as stated: the only response of GET /api/rss that signals a failure *)
(* (a status other than 200 or a top-level error) is the empty result with *)
(* an error string, of a request whose fetch failed with no entry read.    *)
(***************************************************************************)
SignalsFailure(x) == x.status # 200 \/ x.error # ""

C11_Original ==
    \A r \in Reqs :
        (resp[r] # Null /\ SignalsFailure(resp[r][1]))
        => /\ resp[r][1].sources = Some(<<>>)
           /\ resp[r][1].error # ""
           /\ eff[r].threw
           /\ eff[r].seen = Null

(***************************************************************************)
(* C11, amended: GET /api/rss has two responses that signal a failure: the *)
(* 429 {error} of a request the rate limiter refused, sent before the      *)
(* request touched the cache, and the 500 {sources: [], error} sent        *)
(* exactly when the fetch threw and the request had read no entry.  Every  *)
(* other response has status 200, sources and _cache, and no top-level     *)
(* error.                                                                  *)
(***************************************************************************)
C11_FailureResponses ==
    \A r \in Reqs :
        resp[r] # Null =>
            LET x == resp[r][1]
            IN  /\ x.status \in {200, 429, 500}
                /\ x.status = 429
                   => /\ x.error = ErrTooMany
                      /\ x.sources = Null /\ x.meta = Null
                      /\ eff[r] = NoEff
                /\ x.status = 500
                   => /\ x.error = ErrFailed
                      /\ x.sources = Some(<<>>) /\ x.meta = Null
                /\ x.status = 500 <=> (eff[r].threw /\ eff[r].seen = Null)
                /\ x.status = 200
                   => /\ x.error = ""
                      /\ x.sources # Null /\ x.meta # Null
                      /\ eff[r].seen # Null \/ eff[r].fetches = 1

\* one request refused by the limiter, another failed with nothing to serve
C11_Witness ==
    \E r, q \in Reqs :
        /\ resp[r] # Null /\ resp[r][1].status = 429
        /\ resp[q] # Null /\ resp[q][1].status = 500
        /\ eff[q].threw

(***************************************************************************)
(* The classification functions of blobCache.js on their own: a client     *)
(* calls them with timestamps around both thresholds, at two readings of   *)
(* the clock one millisecond apart, and the calls are kept.                *)
(***************************************************************************)
\* calls kept
MaxCalls == 2

\* ages (ms) of the timestamps handed to the functions
StatusAges ==
    {0, MinuteMs,
     15 * MinuteMs - 1, 15 * MinuteMs, 15 * MinuteMs + 1,
     20 * MinuteMs,
     30 * MinuteMs - 1, 30 * MinuteMs, 30 * MinuteMs + 1,
     40 * MinuteMs}
StatusClocks == {T0, T0 + 1}
StatusTimestamps ==
    {t - a : t \in StatusClocks, a \in StatusAges}

\* blobCache.js:95-97
isCacheStale(timestamp, t) == t - timestamp > STALE_THRESHOLD
\* blobCache.js:104-106
isCacheExpired(timestamp, t) == t - timestamp > EXPIRE_THRESHOLD

statusFrame == <<cache, pipeRest, notStatus>>

\* no request, no refresh
PipeRestIdle ==
    /\ requests = [k \in RlKeys |-> Null]
    /\ refreshInProgress = FALSE
    /\ req = [r \in Reqs |-> IdleReq]
    /\ resp = [r \in Reqs |-> Null]
    /\ trig = [r \in Reqs |-> "none"]
    /\ bg = [b \in BgIds |-> IdleBg]
    /\ eff = [r \in Reqs |-> NoEff]
    /\ bgHist = [started |-> 0, last |-> "none"]
    /\ ext = [posts |-> 0, refreshing |-> 0, last |-> "none"]

PipeIdle == cache = Null /\ PipeRestIdle

StatusInit ==
    /\ now = T0
    /\ PipeIdle
    /\ LibIdle

Call(fn, timestamp, result) ==
    /\ Cardinality(calls) < MaxCalls
    /\ timestamp <= now
    /\ calls' = calls \cup {[fn |-> fn, timestamp |-> timestamp, now |-> now,
                             result |-> result]}
    /\ UNCHANGED <<now, statusFrame>>

CallGetCacheStatus(timestamp) ==
    Call("getCacheStatus", timestamp, getCacheStatus(timestamp, now))

CallIsCacheStale(timestamp) ==
    Call("isCacheStale", timestamp,
         [answer |-> isCacheStale(timestamp, now)])

CallIsCacheExpired(timestamp) ==
    Call("isCacheExpired", timestamp,
         [answer |-> isCacheExpired(timestamp, now)])

\* Date.now() moves on by a millisecond
StatusTick ==
    /\ now + 1 \in StatusClocks
    /\ now' = now + 1
    /\ UNCHANGED <<statusFrame, calls>>

StatusNext ==
    \/ \E ts \in StatusTimestamps : CallGetCacheStatus(ts)
    \/ \E ts \in StatusTimestamps : CallIsCacheStale(ts)
    \/ \E ts \in StatusTimestamps : CallIsCacheExpired(ts)
    \/ StatusTick

SpecStatus == StatusInit /\ [][StatusNext]_vars

\* the calls of getCacheStatus, and the age each was made at
StatusCalls == {c \in calls : c.fn = "getCacheStatus"}
AgeOf(c) == c.now - c.timestamp

\* the class a status stands for, as GET /api/rss reads it (route.js:62, 78)
ClassOf(status) ==
    IF ~status.isStale /\ ~status.isExpired THEN "Fresh"
    ELSE IF status.isStale /\ ~status.isExpired THEN "Stale"
    ELSE IF status.isExpired /\ status.isStale THEN "Expired"
    ELSE "none"

ClassAt(age) ==
    IF age = 0 \/ age = 15 * MinuteMs THEN "Fresh"
    ELSE IF age \in {15 * MinuteMs + 1, 20 * MinuteMs, 30 * MinuteMs}
    THEN "Stale"
    ELSE IF age \in {30 * MinuteMs + 1, 40 * MinuteMs} THEN "Expired"
    ELSE "any"

FeedUnderStudy == [url |-> "a", id |-> 1]

FeedInit ==
    /\ now = T0
    /\ PipeIdle
    /\ StatusIdle /\ FetchIdle /\ StoreIdle /\ RefreshIdle /\ OtherIdle
    /\ feedIn \in Worlds
    /\ feedOut = Null

\* the call, up to the settling of the promise it returned
CallProcessFeed ==
    /\ feedOut = Null
    /\ feedOut' = Some(processFeed(FeedUnderStudy, feedIn))
    /\ UNCHANGED <<pipeVars, notFeed, feedIn>>

\* the caller drops the promise and calls again on another answer of the
\* network
CallAgain ==
    /\ feedOut # Null
    /\ feedOut' = Null
    /\ feedIn' \in Worlds
    /\ UNCHANGED <<pipeVars, notFeed>>

FeedNext == CallProcessFeed \/ CallAgain

SpecFeed == FeedInit /\ [][FeedNext]_vars

\* the positions of the items whose article can be built
RECURSIVE GoodItems(_, _)
GoodItems(items, j) ==
    IF j > Len(items) THEN <<>>
    ELSE IF items[j] = "ok" THEN <<j>> \o GoodItems(items, j + 1)
    ELSE GoodItems(items, j + 1)

\* the failure modes of a feed
FeedFails(w) ==
    \/ w.fetch.kind = "neterror"
    \/ w.fetch.kind = "abort" \/ w.body = "abort"
    \/ w.fetch.kind = "response"
       /\ (w.fetch.status < 200 \/ w.fetch.status > 299)
    \/ w.parse = "fail"
    \/ w.header = "throws"
    \/ GoodItems(w.items, 1) = <<>>

(***************************************************************************)
(* C16: the promise of processFeed is never rejected; in every failure     *)
(* mode (network error, abort by the 10 s timer, non-2xx status, both      *)
(* parses failing, an exception on the feed's own fields, no article left) *)
(* it resolves to null; otherwise it resolves to a result whose articles   *)
(* are the items that did not throw, in order (a throwing item is skipped  *)
(* alone), and these are never empty.  Checked under SpecFeed.             *)
(***************************************************************************)
C16_ProcessFeedNeverThrows ==
    feedOut # Null =>
        LET p == feedOut[1]
        IN  /\ p.status = "fulfilled"
            /\ FeedFails(feedIn) <=> p.value = Null
            /\ p.value # Null
               => /\ p.value[1].articles = GoodItems(feedIn.items, 1)
                  /\ Len(p.value[1].articles) > 0
                  /\ p.value[1].source = FeedUnderStudy

\* a feed parsed after sanitizing whose first item throws and second is kept
C16_Witness ==
    /\ feedOut # Null
    /\ feedIn.parse = "sanitized"
    /\ feedIn.items = <<"throws", "ok">>
    /\ feedOut[1].value # Null
    /\ feedOut[1].value[1].articles = <<2>>

(***************************************************************************)
(* fetchAllFeeds on its own: one run for every configuration file and      *)
(* batchSize, the feeds of a chunk settling in any order.                  *)
(***************************************************************************)
FetchInit ==
    /\ now = T0
    /\ PipeIdle
    /\ StatusIdle /\ FeedIdle /\ StoreIdle /\ RefreshIdle /\ OtherIdle
    /\ config \in ConfigFiles
    /\ fa = IdleFa

\* part_002:234-238: the run returns {sources}
FaReturn(run, sources) ==
    [run EXCEPT !.pc = "done", !.sources = sources,
                !.result = Some(Settle(Return([sources |-> sources])))]

\* part_002:216-224: the loop test, and the next chunk issued or the return
FaLoop(run, i, sources, promises) ==
    IF i < Len(run.feeds)
    THEN [run EXCEPT !.pc = "await", !.i = i, !.sources = sources,
                     !.promises =
                         IssueBatch(promises,
                                    Slice(run.feeds, i, run.batchSize))]
    ELSE FaReturn([run EXCEPT !.i = i, !.promises = promises], sources)

\* part_002:205-224: the call, up to the first await
FaCall(batchSize) ==
    /\ fa.pc = "idle"
    /\ LET feeds == loadFeedConfigs(config)
           run == [fa EXCEPT !.batchSize = batchSize, !.feeds = feeds]
       IN  fa' = IF Len(feeds) = 0
                 THEN FaReturn(run, <<>>)
                 ELSE FaLoop(run, 0, <<>>,
                             [k \in 1..Len(feeds) |-> Unissued])
    /\ UNCHANGED <<pipeVars, notFetch, config>>

\* the promises processFeed can return for a descriptor, over all worlds
FeedPromises(feedConfig) == {processFeed(feedConfig, w) : w \in Worlds}

\* the processFeed call of position k settles, in some world
FeedSettles(k) ==
    /\ fa.pc = "await"
    /\ k \in 1..Len(fa.promises)
    /\ fa.promises[k].status = "pending"
    /\ \E p \in FeedPromises(fa.feeds[k]) :
         fa' = [fa EXCEPT !.promises[k] = p]
    /\ UNCHANGED <<pipeVars, notFetch, config>>

\* part_002:224-233: allSettled resumes the loop, the results are pushed
FaBatchSettled ==
    /\ fa.pc = "await"
    /\ BatchSettled(fa.promises, Slice(fa.feeds, fa.i, fa.batchSize))
    /\ fa' = FaLoop(fa, fa.i + fa.batchSize,
                    PushResults(fa.sources, fa.promises, fa.i + 1,
                                Min(fa.i + fa.batchSize, Len(fa.feeds))),
                    fa.promises)
    /\ UNCHANGED <<pipeVars, notFetch, config>>

FetchNext ==
    \/ \E batchSize \in 1..MaxBatch : FaCall(batchSize)
    \/ \E k \in 1..MaxConfigLen : FeedSettles(k)
    \/ FaBatchSettled

SpecFetch == FetchInit /\ [][FetchNext]_vars

\* the registry positions whose fetch succeeded, and the results in
\* registry order
Succeeded(k) ==
    fa.promises[k].status = "fulfilled" /\ fa.promises[k].value # Null

RECURSIVE SuccessesFrom(_)
SuccessesFrom(k) ==
    IF k > Len(fa.promises) THEN <<>>
    ELSE IF Succeeded(k) THEN fa.promises[k].value \o SuccessesFrom(k + 1)
    ELSE SuccessesFrom(k + 1)

(***************************************************************************)
(* C14: when fetchAllFeeds has returned, its promise is fulfilled (never   *)
(* rejected), every feed of the registry has been fetched, and sources is  *)
(* the registry filtered to the feeds whose processFeed gave a result, in  *)
(* registry order whatever the order the fetches settled in: each          *)
(* successful feed once, each failed feed left out and nothing else        *)
(* changed; with every feed failed it is {sources: []}.  Checked under     *)
(* SpecFetch.                                                              *)
(***************************************************************************)
C14_SourcesAreRegistryFilteredBySuccess ==
    fa.pc = "done" =>
        /\ fa.result # Null
        /\ fa.result[1].status = "fulfilled"
        /\ \A k \in 1..Len(fa.feeds) : fa.promises[k].status = "fulfilled"
        /\ fa.result[1].value.sources = SuccessesFrom(1)
        /\ \A k \in 1..Len(fa.feeds) :
             Cardinality({j \in 1..Len(fa.result[1].value.sources) :
                            fa.result[1].value.sources[j].source =
                            fa.feeds[k]})
             = IF Succeeded(k) THEN 1 ELSE 0
        /\ \A j, l \in 1..Len(fa.result[1].value.sources) :
             j < l => fa.result[1].value.sources[j].source.id
                      < fa.result[1].value.sources[l].source.id

\* three feeds in chunks of two: the second failed, the others are returned
\* in registry order
C14_Witness ==
    /\ fa.pc = "done"
    /\ fa.batchSize = 2
    /\ Len(fa.feeds) = 3
    /\ Succeeded(1) /\ ~Succeeded(2) /\ Succeeded(3)
    /\ Len(fa.result[1].value.sources) = 2
    /\ fa.result[1].value.sources[1].source = fa.feeds[1]
    /\ fa.result[1].value.sources[2].source = fa.feeds[3]

\* every feed failed, in two chunks: the run returns {sources: []}
C14_WitnessAllFailed ==
    /\ fa.pc = "done"
    /\ Len(fa.feeds) = 2 /\ fa.batchSize = 1
    /\ \A k \in 1..Len(fa.feeds) : ~Succeeded(k)
    /\ fa.result[1] = Settle(Return([sources |-> <<>>]))

(***************************************************************************)
(* C15: during a run of fetchAllFeeds(batchSize) at most batchSize         *)
(* processFeed calls are in flight; the calls in flight belong to the      *)
(* current chunk, the registry slice (i, i + batchSize] with i a multiple  *)
(* of batchSize; every feed of an earlier chunk has settled and no feed of *)
(* a later chunk has been issued.  Checked under SpecFetch.                *)
(***************************************************************************)
InFlight == {k \in 1..Len(fa.promises) : fa.promises[k].status = "pending"}

C15_ChunksBoundConcurrency ==
    fa.pc = "await" =>
        /\ Cardinality(InFlight) <= fa.batchSize
        /\ fa.i % fa.batchSize = 0
        /\ \A k \in 1..Len(fa.promises) :
             /\ k <= fa.i => fa.promises[k].status = "fulfilled"
             /\ (fa.i < k /\ k <= fa.i + fa.batchSize)
                => fa.promises[k].status \in {"pending", "fulfilled"}
             /\ k > fa.i + fa.batchSize
                => fa.promises[k].status = "unissued"

\* the second chunk is in flight: the first chunk of two has settled, the
\* third feed is pending
C15_Witness ==
    /\ fa.pc = "await"
    /\ fa.batchSize = 2 /\ fa.i = 2
    /\ Len(fa.feeds) = 3
    /\ InFlight = {3}
    /\ fa.promises[1].status = "fulfilled"
    /\ fa.promises[2].status = "fulfilled"

(***************************************************************************)
(* C17: the list loadFeedConfigs returns has no two descriptors with the   *)
(* same url; every url of the file is there once, by its first entry; the  *)
(* descriptors kept are in the order of the file; when the file cannot be  *)
(* loaded the list is empty and fetchAllFeeds returns {sources: []}        *)
(* without fetching.  Checked under SpecFetch, on the list the run works   *)
(* on.                                                                     *)
(***************************************************************************)
C17_RegistryHasUniqueUrls ==
    fa.pc # "idle" =>
        LET feeds == fa.feeds
            file == IF config = Null THEN <<>> ELSE config[1]
        IN  /\ \A j, l \in 1..Len(feeds) :
                 j # l => feeds[j].url # feeds[l].url
            /\ \A j, l \in 1..Len(feeds) : j < l => feeds[j].id < feeds[l].id
            /\ \A j \in 1..Len(feeds) :
                 /\ feeds[j].id \in 1..Len(file)
                 /\ file[feeds[j].id] = feeds[j]
                 /\ \A m \in 1..(feeds[j].id - 1) : file[m].url # feeds[j].url
            /\ \A m \in 1..Len(file) :
                 \E j \in 1..Len(feeds) : feeds[j].url = file[m].url
            /\ Len(file) = 0
               => /\ fa.pc = "done"
                  /\ fa.result = Some(Settle(Return([sources |-> <<>>])))
                  /\ fa.promises = <<>>

\* a file with the urls a, b, a: the third entry is dropped
C17_Witness ==
    /\ fa.pc # "idle"
    /\ config # Null
    /\ Len(config[1]) = 3
    /\ config[1][1].url = config[1][3].url
    /\ config[1][1].url # config[1][2].url
    /\ fa.feeds = <<config[1][1], config[1][2]>>

(***************************************************************************)
(* The cache functions of blobCache.js on their own: one caller makes      *)
(* calls one after the other, on a store that may be unavailable           *)
(* (getBlobStore's catch, blobCache.js:17-20) or whose operation may       *)
(* throw.  A store operation is atomic: it takes effect and returns, or    *)
(* throws with no effect.  The blob is JSON; an aggregate holds strings,   *)
(* booleans, null and arrays only (part_002:120-147), which JSON gives     *)
(* back as they were.                                                      *)
(***************************************************************************)
CacheFns == {"getCachedFeeds", "setCachedFeeds", "clearCache"}

\* the aggregates handed to setCachedFeeds
CacheArgs == {Data(<<>>, 1), Data(AllFeeds, 2)}

CacheInit ==
    /\ now = T0
    /\ cache \in {Null, Some(CacheEntry(Data(AllFeeds, 0), T0 - 15 * MinuteMs))}
    /\ PipeRestIdle
    /\ StatusIdle /\ FeedIdle /\ FetchIdle /\ RefreshIdle /\ OtherIdle
    /\ StoreIdle

cacheFrame == <<pipeRest, notStore>>

\* blobCache.js:40-43, 66-69, 84-87: the catch of each function returns the
\* fallback (null or false)
CacheCatch_Rethrows(body, fallback) == body
CacheCatch(body, fallback) ==
    IF body.throws THEN Return(fallback) ELSE body

\* a call that has returned: the promise's status, what get returned, what
\* set or clear returned, and the store before it
Returned(fn, arg, t, outcome, promise, before) ==
    Some([fn |-> fn, arg |-> arg, t |-> t, outcome |-> outcome,
          status |-> promise.status,
          returned |-> IF fn = "getCachedFeeds" /\ promise.status = "fulfilled"
                       THEN promise.value ELSE Null,
          success |-> IF fn # "getCachedFeeds" /\ promise.status = "fulfilled"
                      THEN promise.value ELSE FALSE,
          before |-> before])

\* blobCache.js:28-29, 52-53, 77-78 and the Date.now() of :58: the call; with
\* no store it returns at once, else it awaits the store
CacheCall(fn, arg) ==
    /\ pend = Null
    /\ fn = "setCachedFeeds" <=> arg # Null
    /\ \E avail \in BOOLEAN :
         IF avail
         THEN /\ pend' = Some([fn |-> fn, arg |-> arg, t |-> now])
              /\ UNCHANGED <<last, prev>>
         ELSE /\ last' = Returned(fn, arg, now, "unavailable",
                                  Settle(Return(IF fn = "getCachedFeeds"
                                                THEN Null ELSE FALSE)),
                                  cache)
              /\ prev' = last
              /\ pend' = pend
    /\ UNCHANGED <<now, cache, cacheFrame>>

\* blobCache.js:31-43, 55-69, 80-87: the store operation settles and the
\* function returns
CacheSettle ==
    /\ pend # Null
    /\ \E ok \in BOOLEAN :
         LET c == pend[1]
             body == IF ~ok THEN Throw
                     ELSE IF c.fn = "getCachedFeeds"
                     THEN Return(getCachedFeeds(cache, ok))
                     ELSE Return(TRUE)
             promise == Settle(CacheCatch(body, IF c.fn = "getCachedFeeds"
                                                THEN Null ELSE FALSE))
         IN  /\ cache' = IF c.fn = "setCachedFeeds"
                         THEN setCachedFeeds(cache, c.arg[1], c.t, ok)
                         ELSE IF c.fn = "clearCache"
                         THEN clearCache(cache, ok)
                         ELSE cache
             /\ last' = Returned(c.fn, c.arg, c.t,
                                 IF ok THEN "ok" ELSE "error", promise, cache)
    /\ prev' = last
    /\ pend' = Null
    /\ UNCHANGED <<now, cacheFrame>>

CacheTick ==
    /\ now < T0 + MaxTicks * TickMs
    /\ now' = now + TickMs
    /\ UNCHANGED <<cache, cacheFrame, storeVars>>

CacheNext ==
    \/ \E fn \in CacheFns, arg \in {Null} \cup {Some(x) : x \in CacheArgs} :
         CacheCall(fn, arg)
    \/ CacheSettle
    \/ CacheTick

SpecCache == CacheInit /\ [][CacheNext]_vars

(***************************************************************************)
(* C18: a getCachedFeeds that returns right after a setCachedFeeds(X) that *)
(* returned true (no write or clear between them) returns the entry with   *)
(* data = X, timestamp = the time of the set call and feedCount = the      *)
(* number of sources of X; a set that returned true has replaced whatever  *)
(* entry there was; the store holds at most one entry and every entry in   *)
(* it has feedCount = length of data.sources.  Checked under SpecCache.    *)
(***************************************************************************)
C18_CacheRoundTrip ==
    /\ Len(cache) <= 1
    /\ cache # Null => cache[1].feedCount = Len(cache[1].data.sources)
    /\ (last # Null /\ last[1].fn = "setCachedFeeds" /\ last[1].success)
       => cache = Some([data |-> last[1].arg[1], timestamp |-> last[1].t,
                        feedCount |-> Len(last[1].arg[1].sources)])
    /\ (/\ last # Null /\ prev # Null
        /\ last[1].fn = "getCachedFeeds" /\ last[1].outcome = "ok"
        /\ prev[1].fn = "setCachedFeeds" /\ prev[1].success)
       => last[1].returned =
            Some([data |-> prev[1].arg[1], timestamp |-> prev[1].t,
                  feedCount |-> Len(prev[1].arg[1].sources)])

\* an entry replaced by a set made before the clock moved, read after
C18_Witness ==
    /\ last # Null /\ prev # Null
    /\ last[1].fn = "getCachedFeeds" /\ last[1].outcome = "ok"
    /\ prev[1].fn = "setCachedFeeds" /\ prev[1].success
    /\ prev[1].before # Null
    /\ prev[1].t < now
    /\ last[1].returned # Null
    /\ last[1].returned[1].data = Data(AllFeeds, 2)
    /\ last[1].returned[1].timestamp = prev[1].t

(***************************************************************************)
(* C19: no cache function throws (its promise is fulfilled); with the      *)
(* store unavailable or its operation failing getCachedFeeds returns null, *)
(* as it does for an absent entry, setCachedFeeds and clearCache return    *)
(* false, and the store is as it was; a clearCache whose delete works      *)
(* returns true and leaves the cache absent, also when it was absent       *)
(* before.  Checked under SpecCache.                                       *)
(***************************************************************************)
C19_CacheNeverThrows ==
    last # Null =>
        /\ last[1].status = "fulfilled"
        /\ last[1].outcome # "ok"
           => /\ last[1].returned = Null
              /\ ~last[1].success
              /\ cache = last[1].before
        /\ (last[1].fn = "getCachedFeeds" /\ last[1].outcome = "ok")
           => last[1].returned = last[1].before /\ cache = last[1].before
        /\ (last[1].fn = "clearCache" /\ last[1].outcome = "ok")
           => last[1].success /\ cache = Null

\* a second clear in a row on the absent entry succeeds; and a failed set
\* over an entry
C19_Witness ==
    /\ last # Null /\ prev # Null
    /\ last[1].fn = "clearCache" /\ last[1].outcome = "ok"
    /\ last[1].before = Null /\ last[1].success
    /\ prev[1].fn = "clearCache" /\ prev[1].success

C19_WitnessFailure ==
    /\ last # Null
    /\ last[1].fn = "setCachedFeeds" /\ last[1].outcome = "error"
    /\ last[1].before # Null /\ cache = last[1].before

(***************************************************************************)
(* refresh/route.js on its own: clients POST and GET /api/rss/refresh      *)
(* while the refreshes they start run.                                     *)
(***************************************************************************)
\* POSTs answered
MaxPosts == 3

RefreshInit ==
    /\ now = T0
    /\ cache \in {Null, Some(CacheEntry(Data(AllFeeds, 0), T0 - 20 * MinuteMs))}
    /\ PipeRestIdle
    /\ LibIdle

\* POST /api/rss/refresh (refresh/route.js:13-62): the response, with what
\* the handler found (the flag on arrival) and did (runs started, whether a
\* refresh is running when it returns)
RefreshPost ==
    /\ Len(posts) < MaxPosts
    /\ POST
    /\ posts' = Append(posts,
                       [status |-> PostStatus,
                        flag |-> refreshInProgress,
                        started |-> bgHist'.started - bgHist.started,
                        running |-> \E b \in BgIds : bg'[b].pc # "idle"])
    /\ UNCHANGED <<now, cache, requests, req, resp, trig, eff, ext,
                   notRefresh, statusResp>>

\* refresh/route.js:69-74, the body of the status response
RefreshStatus(flag) ==
    [refreshInProgress |-> flag,
     message |-> IF flag THEN "A refresh is currently running"
                 ELSE "No refresh in progress"]

\* GET /api/rss/refresh (refresh/route.js:68-75): the response, with whether
\* a refresh was running when it was made
RefreshGet ==
    /\ statusResp' = Some([body |-> RefreshStatus(refreshInProgress),
                           running |-> Running # {}])
    /\ UNCHANGED <<pipeVars, notRefresh, posts>>

RefreshNext ==
    \/ RefreshPost
    \/ RefreshGet
    \/ \E b \in BgIds : BgFetchBatch(b)
    \/ \E b \in BgIds : BgFetchThrow(b)
    \/ \E b \in BgIds : BgWrite(b)

SpecRefresh == RefreshInit /\ [][RefreshNext]_vars

(***************************************************************************)
(* C20: a POST /api/rss/refresh is answered in the step in which it        *)
(* arrives: "refreshing" exactly when the flag was false on arrival, and   *)
(* then it has started one refresh, which is still running when the        *)
(* answer is made; "skipped" exactly when the flag was true, and then it   *)
(* has started nothing.  GET /api/rss/refresh answers the value of the     *)
(* flag, which is true exactly while a started refresh has not ended.      *)
(* Checked under SpecRefresh.                                              *)
(***************************************************************************)
C20_PostAnswersAtOnce ==
    /\ \A n \in 1..Len(posts) :
         /\ posts[n].status \in {"refreshing", "skipped"}
         /\ posts[n].status = "refreshing" <=> ~posts[n].flag
         /\ posts[n].status = "skipped" <=> posts[n].flag
         /\ posts[n].started = IF posts[n].status = "refreshing" THEN 1 ELSE 0
         /\ posts[n].running
    /\ statusResp # Null
       => (statusResp[1].body.refreshInProgress <=> statusResp[1].running)
    /\ refreshInProgress <=> Running # {}

\* refreshing, skipped, and refreshing again after the first run ended; the
\* status GET said a refresh was running
C20_Witness ==
    /\ Len(posts) = 3
    /\ posts[1].status = "refreshing"
    /\ posts[2].status = "skipped"
    /\ posts[3].status = "refreshing"
    /\ statusResp # Null /\ statusResp[1].body.refreshInProgress

(***************************************************************************)
(* C21: a background refresh is one orchestrator run followed by one cache *)
(* write of the run's whole result: its write is issued after the last     *)
(* chunk only, and when it succeeds the store holds exactly the run's      *)
(* sources (feedCount their number), else the store is as it was; before   *)
(* the write the run leaves the store alone.  No step of a refresh gives   *)
(* or changes a response of GET /api/rss: the caller whose trigger started *)
(* it keeps the answer it got.  A GET whose read returns the entry a       *)
(* refresh wrote (no later write or clear has replaced it) sees that run's *)
(* aggregate, and without clearCache, at an age <= 15 min, answers with it *)
(* as Fresh: stale = false, refreshing = false.                            *)
(***************************************************************************)
\* the store holds the entry a background refresh wrote
HoldsRefreshResult == cache # Null /\ cache[1].data.run > MaxReqs

C21_RefreshWritesNextGetReads ==
    [][/\ \A b \in BgIds :
            (bg[b].pc # "idle" /\ bg'[b] # bg[b])
            => /\ UNCHANGED <<resp, req, eff, trig>>
               /\ bg[b].pc = "fetch" => cache' = cache
               /\ bg'[b].pc = "write"
                  => bg[b].pc = "fetch" /\ bg'[b].i >= NumFeeds
               /\ bg[b].pc = "write"
                  => /\ bg'[b].pc = "idle"
                     /\ cache' =
                          IF bgHist'.last = "completed"
                          THEN Some([data |-> Data(bg[b].sources, bg[b].run),
                                     timestamp |-> bg[b].stamp,
                                     feedCount |-> Len(bg[b].sources)])
                          ELSE cache
       /\ \A r \in Reqs :
            (ReadStep(r) /\ HoldsRefreshResult /\ eff'[r].seen # Null)
            => /\ eff'[r].seen = Seen(cache, now)
               /\ (~req[r].forceClear /\ IsFreshAge(now - cache[1].timestamp))
                  => /\ resp'[r] # Null
                     /\ IsFeedResponse(resp'[r][1], cache[1].data.sources,
                                       cache[1].data.run, FALSE, FALSE)
                     /\ resp'[r][1].meta[1].age = now - cache[1].timestamp
      ]_vars

\* the caller that triggered the refresh was answered with the old entry;
\* the next request is answered with the refresh's aggregate, as Fresh
C21_Witness ==
    \E r, q \in Reqs :
        /\ SawStale(q) /\ trig[q] = "refreshing"
        /\ resp[q] # Null /\ resp[q][1].run = 0
        /\ bgHist.last = "completed"
        /\ resp[r] # Null
        /\ IsFeedResponse(resp[r][1], AllFeeds, BgRun(1), FALSE, FALSE)

(***************************************************************************)
(* processFeed, part_002:80-152: the fields of a feed that was fetched and *)
(* parsed.  A link is a string: its origin ("" when the link is relative)  *)
(* and the rest.  A date is a string: its format and the instant it names  *)
(* (a string Date cannot parse names none).  Date.now() is read once for   *)
(* the feed and once for each item; the clock may move between readings.   *)
(***************************************************************************)
Link(origin, path) == [origin |-> origin, path |-> path]

\* the URL processFeed was called with
FeedUrl == Link("https://feeds.example", "/rss")

\* str.startsWith("http")
StartsWithHttp(l) == l.origin # ""

\* new URL(l).origin: a relative link is not a URL (TypeError: Invalid URL)
UrlOrigin(l) == IF l.origin = "" THEN Throw ELSE Return(Link(l.origin, ""))

DateStr(fmt, ms) == [fmt |-> fmt, ms |-> ms]

\* new Date(d).getTime(): Null stands for NaN
ParseDate(d) == IF d.fmt = "bad" THEN Null ELSE Some(d.ms)

\* new Date(t).toISOString()
toISOString(t) == DateStr("iso", t)

\* a || b on values that are null or a non-empty string
Or(a, b) == IF a # Null THEN a ELSE b

\* variant: a future date is kept as it is
clampFuture_Never(d, t) == d

\* part_002:89-96 and 112-118: a date after the clock's reading becomes the
\* reading (NaN > now is false)
clampFuture(d, t) ==
    IF d = Null THEN Null
    ELSE LET date == ParseDate(d[1])
         IN  IF date # Null /\ date[1] > t THEN Some(toISOString(t)) ELSE d

\* the clock while one feed is processed
FieldClocks == {T0, T0 + 1, T0 + 2}

FieldLinks ==
    {Null, Some(Link("https://site.example", "/a")), Some(Link("", "/a"))}
FieldDates ==
    {Null, Some(DateStr("rfc822", T0 - 1000)), Some(DateStr("rfc822", T0 + 1)),
     Some(DateStr("rfc822", T0 + 1000)), Some(DateStr("bad", 0))}
FieldBuildDates ==
    {Null, Some(DateStr("rfc822", T0 - 2000)),
     Some(DateStr("rfc822", T0 + 2000))}

FieldItems == [link : FieldLinks, pubDate : FieldDates]

ParsedFeeds ==
    [link : FieldLinks,
     lastBuildDate : FieldBuildDates,
     items : UNION {[1..n -> FieldItems] : n \in 0..MaxItems}]

\* parsedFeed.items?.[0]
FirstItem(parsed) ==
    IF Len(parsed.items) > 0 THEN Some(parsed.items[1]) ELSE Null

\* part_002:82-86
resolveFeedLink(parsed, feedUrl) ==
    IF parsed.link # Null /\ StartsWithHttp(parsed.link[1])
    THEN Return(parsed.link[1])
    ELSE IF FirstItem(parsed) # Null /\ FirstItem(parsed)[1].link # Null
    THEN UrlOrigin(FirstItem(parsed)[1].link[1])
    ELSE Return(feedUrl)

\* part_002:88-96, read at the clock's reading t
resolveFeedUpdatedAt(parsed, t) ==
    clampFuture(Or(parsed.lastBuildDate,
                   IF FirstItem(parsed) # Null
                   THEN FirstItem(parsed)[1].pubDate ELSE Null),
                t)

\* part_002:99-131 on item j at the clock's reading t: the article, with the
\* item it came from and the reading
buildArticle(item, j, feedLink, feedUpdatedAt, t) ==
    LET articleLink == IF item.link # Null /\ StartsWithHttp(item.link[1])
                       THEN item.link[1] ELSE feedLink
    IN  [link |-> articleLink,
         pubDate |-> clampFuture(Or(item.pubDate, feedUpdatedAt), t),
         item |-> j,
         at |-> t]

FieldInit ==
    /\ now = T0
    /\ PipeIdle
    /\ StatusIdle /\ FeedIdle /\ FetchIdle /\ StoreIdle /\ RefreshIdle
    /\ TextIdle /\ LimitIdle
    /\ fld \in {[IdleFld EXCEPT !.parsed = p] : p \in ParsedFeeds}

\* part_002:80-96: the feed-level fields; an exception of new URL leaves the
\* try block for catch (fetchError), :153-156, which returns null
FieldsBegin ==
    /\ fld.pc = "idle"
    /\ LET link == resolveFeedLink(fld.parsed, FeedUrl)
       IN  fld' = IF link.throws
                  THEN [fld EXCEPT !.pc = "done",
                                   !.result = Some(Settle(Return(Null)))]
                  ELSE [fld EXCEPT
                          !.pc = "items",
                          !.feedLink = Some(link.value),
                          !.feedUpdatedAt =
                              resolveFeedUpdatedAt(fld.parsed, now),
                          !.at = now,
                          !.j = 1]
    /\ UNCHANGED <<pipeVars, notField>>

\* part_002:99-131: the callback of items.map on the next item
FieldsItem ==
    /\ fld.pc = "items"
    /\ fld.j <= Len(fld.parsed.items)
    /\ fld' = [fld EXCEPT
                 !.articles =
                     Append(@, buildArticle(fld.parsed.items[fld.j], fld.j,
                                            fld.feedLink[1],
                                            fld.feedUpdatedAt, now)),
                 !.j = @ + 1]
    /\ UNCHANGED <<pipeVars, notField>>

\* part_002:134-152: the result, or null for a feed without articles
FieldsReturn ==
    /\ fld.pc = "items"
    /\ fld.j > Len(fld.parsed.items)
    /\ fld' = [fld EXCEPT
                 !.pc = "done",
                 !.result =
                     Some(Settle(Return(
                         IF Len(fld.articles) > 0
                         THEN Some([source |->
                                      [link |-> fld.feedLink[1],
                                       updatedAt |-> fld.feedUpdatedAt],
                                    articles |-> fld.articles])
                         ELSE Null)))]
    /\ UNCHANGED <<pipeVars, notField>>

\* Date.now() moves on by a millisecond
FieldsTick ==
    /\ fld.pc # "done"
    /\ now + 1 \in FieldClocks
    /\ now' = now + 1
    /\ UNCHANGED <<cache, pipeRest, libVars>>

FieldNext == FieldsBegin \/ FieldsItem \/ FieldsReturn \/ FieldsTick

SpecFields == FieldInit /\ [][FieldNext]_vars

\* the feed was emitted
Emitted == fld.pc = "done" /\ fld.result[1].value # Null
EmittedFeed == fld.result[1].value[1]

\* the date string d names an instant after t
IsAfter(d, t) == d.fmt # "bad" /\ d.ms > t

\* the emitted timestamp d is not after t
NotAfter(d, t) == d = Null \/ ~IsAfter(d[1], t)

(***************************************************************************)
(* C22: in an emitted feed, an article whose item has a pubDate strictly   *)
(* after the clock's reading when the item was processed carries that      *)
(* reading (as an ISO string) and not the item's value; an article whose   *)
(* pubDate is not after the reading (or cannot be parsed) keeps the item's *)
(* string; an article without a pubDate carries the feed's updatedAt; the  *)
(* feed's updatedAt is lastBuildDate, else the first item's pubDate,       *)
(* clamped the same way at the feed's reading; so no emitted timestamp is  *)
(* after the clock at the end of processing.  Checked under SpecFields.    *)
(***************************************************************************)
C22_FutureDatesClamped ==
    Emitted =>
        LET out == EmittedFeed
            raw == Or(fld.parsed.lastBuildDate, fld.parsed.items[1].pubDate)
        IN  /\ \A n \in 1..Len(out.articles) :
                 LET a == out.articles[n]
                     item == fld.parsed.items[a.item]
                 IN  /\ fld.at <= a.at /\ a.at <= now
                     /\ (item.pubDate # Null /\ IsAfter(item.pubDate[1], a.at))
                        => /\ a.pubDate = Some(toISOString(a.at))
                           /\ a.pubDate # item.pubDate
                     /\ (item.pubDate # Null /\ ~IsAfter(item.pubDate[1], a.at))
                        => a.pubDate = item.pubDate
                     /\ item.pubDate = Null => a.pubDate = out.source.updatedAt
                     /\ NotAfter(a.pubDate, now)
            /\ out.source.updatedAt =
                 IF raw # Null /\ IsAfter(raw[1], fld.at)
                 THEN Some(toISOString(fld.at)) ELSE raw
            /\ NotAfter(out.source.updatedAt, now)

\* the first item's date, one millisecond ahead of the clock, was clamped
\* for the feed and for its article; the second item, processed a
\* millisecond later with the same date, kept it
C22_Witness ==
    /\ Emitted
    /\ fld.parsed.lastBuildDate = Null
    /\ Len(EmittedFeed.articles) = 2
    /\ fld.parsed.items[1].pubDate = Some(DateStr("rfc822", T0 + 1))
    /\ fld.parsed.items[2].pubDate = Some(DateStr("rfc822", T0 + 1))
    /\ EmittedFeed.source.updatedAt = Some(toISOString(T0))
    /\ EmittedFeed.articles[1].pubDate = Some(toISOString(T0))
    /\ EmittedFeed.articles[2].pubDate = Some(DateStr("rfc822", T0 + 1))

\* the canonical link by the three-step fallback, a link that gives no
\* origin (missing or relative) leading to the third step
CanonicalLink(parsed, feedUrl) ==
    IF parsed.link # Null /\ parsed.link[1].origin # ""
    THEN parsed.link[1]
    ELSE IF /\ Len(parsed.items) > 0
            /\ parsed.items[1].link # Null
            /\ parsed.items[1].link[1].origin # ""
    THEN Link(parsed.items[1].link[1].origin, "")
    ELSE feedUrl

(***************************************************************************)
(* C23 as stated: a feed with articles is emitted whichever step of the    *)
(* fallback applies, its link being the feed's own link if absolute, else  *)
(* the origin of the first article's link, else (that link missing or      *)
(* relative) the requested URL; an article whose link is relative or       *)
(* missing carries the canonical link.  Checked under SpecFields.          *)
(***************************************************************************)
C23_Original ==
    (fld.pc = "done" /\ Len(fld.parsed.items) > 0) =>
        /\ Emitted
        /\ EmittedFeed.source.link = CanonicalLink(fld.parsed, FeedUrl)
        /\ Len(EmittedFeed.articles) = Len(fld.parsed.items)
        /\ \A n \in 1..Len(EmittedFeed.articles) :
             LET item == fld.parsed.items[n]
             IN  EmittedFeed.articles[n].link =
                   IF item.link # Null /\ item.link[1].origin # ""
                   THEN item.link[1]
                   ELSE CanonicalLink(fld.parsed, FeedUrl)

\* the part of C23 that holds: the fallback as stated whenever the feed's
\* own link is absolute or the first article's link is absolute or missing
C23_FallbackWhenOriginDerivable ==
    (/\ fld.pc = "done" /\ Len(fld.parsed.items) > 0
     /\ \/ fld.parsed.link # Null /\ fld.parsed.link[1].origin # ""
        \/ fld.parsed.items[1].link = Null
        \/ fld.parsed.items[1].link[1].origin # "") =>
        /\ Emitted
        /\ EmittedFeed.source.link = CanonicalLink(fld.parsed, FeedUrl)
        /\ \A n \in 1..Len(EmittedFeed.articles) :
             LET item == fld.parsed.items[n]
             IN  EmittedFeed.articles[n].link =
                   IF item.link # Null /\ item.link[1].origin # ""
                   THEN item.link[1]
                   ELSE CanonicalLink(fld.parsed, FeedUrl)

\* the feed dropped: its own link is missing, its first article's link is
\* relative
C23_FeedDropped ==
    /\ fld.pc = "done"
    /\ fld.parsed.link = Null
    /\ Len(fld.parsed.items) > 0
    /\ fld.parsed.items[1].link = Some(Link("", "/a"))
    /\ fld.result = Some(Settle(Return(Null)))

(***************************************************************************)
(* The text functions of part_002 on their own.  For sanitizeXml a text is *)
(* the character data of an element (no '<', so the attribute pattern of   *)
(* :20 has nothing to match), cut into the pieces the patterns of :21-28   *)
(* tell apart: "&", the name of an entity with its ";" ("amp;", "ldquo;",  *)
(* "#38;"), other characters.  For decodeHtmlEntities a text is a sequence *)
(* of UTF-16 code units and of references &#N;.                            *)
(***************************************************************************)
\* pieces of a text handed to a function
MaxTextLen == 3

\* part_002:21, the entities the pattern leaves alone: amp; lt; gt; quot;
\* apos; and #digits;
RecognizedEntities == {"amp;", "lt;", "gt;", "quot;", "apos;", "#38;"}

\* part_002:22-28, the named entities and what replaces them
NamedEntities ==
    {"ldquo;", "rdquo;", "lsquo;", "rsquo;", "mdash;", "ndash;", "nbsp;"}
AsciiFor(name) ==
    IF name \in {"ldquo;", "rdquo;"} THEN "\""
    ELSE IF name \in {"lsquo;", "rsquo;"} THEN "'"
    ELSE IF name \in {"mdash;", "ndash;"} THEN "-"
    ELSE " "

\* part_002:20: on character data the pattern, which begins with '<',
\* matches nothing
quoteBareAttributes(text) == text

\* part_002:21, .replace(/&(?!(amp;|lt;|gt;|quot;|apos;|#\d+;))/g, "&amp;")
RECURSIVE escapeBareAmp(_, _)
escapeBareAmp(text, k) ==
    IF k > Len(text) THEN <<>>
    ELSE IF /\ text[k] = "&"
            /\ ~(k < Len(text) /\ text[k + 1] \in RecognizedEntities)
    THEN <<"&", "amp;">> \o escapeBareAmp(text, k + 1)
    ELSE <<text[k]>> \o escapeBareAmp(text, k + 1)

\* part_002:22-28, .replace(/&name/g, ascii) for one named entity
RECURSIVE replaceEntity(_, _, _)
replaceEntity(text, name, k) ==
    IF k > Len(text) THEN <<>>
    ELSE IF text[k] = "&" /\ k < Len(text) /\ text[k + 1] = name
    THEN <<AsciiFor(name)>> \o replaceEntity(text, name, k + 2)
    ELSE <<text[k]>> \o replaceEntity(text, name, k + 1)

\* part_002:22-28, the seven replacements in the order of the source
replaceNamedEntities(text) ==
    LET t1 == replaceEntity(text, "ldquo;", 1)
        t2 == replaceEntity(t1, "rdquo;", 1)
        t3 == replaceEntity(t2, "lsquo;", 1)
        t4 == replaceEntity(t3, "rsquo;", 1)
        t5 == replaceEntity(t4, "mdash;", 1)
        t6 == replaceEntity(t5, "ndash;", 1)
    IN  replaceEntity(t6, "nbsp;", 1)

\* part_002:16-29: the replacements chained in the order of the source, the
\* escaping of "&" before the named entities
sanitizeXml(xmlText) ==
    IF xmlText = <<>> THEN <<>>
    ELSE replaceNamedEntities(
             escapeBareAmp(quoteBareAttributes(xmlText), 1))

\* a UTF-16 code unit, and a decimal reference &#N;
Unit(code) == [kind |-> "unit", code |-> code]
Ref(n) == [kind |-> "ref", code |-> n]

\* String.fromCharCode(n): the one code unit ToUint16(n)
fromCharCode(n) == <<Unit(n % 65536)>>

\* part_002:8-11
RECURSIVE decodeFrom(_, _)
decodeFrom(str, k) ==
    IF k > Len(str) THEN <<>>
    ELSE IF str[k].kind = "ref"
    THEN fromCharCode(str[k].code) \o decodeFrom(str, k + 1)
    ELSE <<str[k]>> \o decodeFrom(str, k + 1)

decodeHtmlEntities(str) == IF str = <<>> THEN <<>> ELSE decodeFrom(str, 1)

\* the texts tried
XmlPieces == {"&", "amp;", "#38;", "ldquo;", "nbsp;", "t"}
XmlTexts == UNION {[1..n -> XmlPieces] : n \in 0..MaxTextLen}

\* 'A', '&', and references to 'A', to U+2019, to the last code point of
\* one unit, to the first of two units and to U+1F600
EntityPieces ==
    {Unit(65), Unit(38), Ref(65), Ref(8217), Ref(65535), Ref(65536),
     Ref(128512)}
EntityTexts == UNION {[1..n -> EntityPieces] : n \in 0..MaxTextLen}

TextInit ==
    /\ now = T0
    /\ PipeIdle
    /\ StatusIdle /\ FeedIdle /\ FetchIdle /\ StoreIdle /\ RefreshIdle
    /\ FieldIdle /\ LimitIdle
    /\ txt \in {[fn |-> "sanitizeXml", input |-> t, output |-> Null] :
                  t \in XmlTexts}
               \cup
               {[fn |-> "decodeHtmlEntities", input |-> t, output |-> Null] :
                  t \in EntityTexts}

CallSanitizeXml ==
    /\ txt.fn = "sanitizeXml" /\ txt.output = Null
    /\ txt' = [txt EXCEPT !.output = Some(sanitizeXml(txt.input))]
    /\ UNCHANGED <<pipeVars, notText>>

CallDecodeHtmlEntities ==
    /\ txt.fn = "decodeHtmlEntities" /\ txt.output = Null
    /\ txt' = [txt EXCEPT !.output = Some(decodeHtmlEntities(txt.input))]
    /\ UNCHANGED <<pipeVars, notText>>

TextNext == CallSanitizeXml \/ CallDecodeHtmlEntities

SpecText == TextInit /\ [][TextNext]_vars

\* the text with every named entity replaced by its ASCII equivalent and
\* every "&" that begins no entity, named or recognized, escaped
RECURSIVE SanitizedAsStated(_, _)
SanitizedAsStated(text, k) ==
    IF k > Len(text) THEN <<>>
    ELSE IF text[k] # "&" THEN <<text[k]>> \o SanitizedAsStated(text, k + 1)
    ELSE IF k < Len(text) /\ text[k + 1] \in NamedEntities
    THEN <<AsciiFor(text[k + 1])>> \o SanitizedAsStated(text, k + 2)
    ELSE IF k < Len(text) /\ text[k + 1] \in RecognizedEntities
    THEN <<"&">> \o SanitizedAsStated(text, k + 1)
    ELSE <<"&", "amp;">> \o SanitizedAsStated(text, k + 1)

\* position k of the text begins a named entity
NamedAt(text, k) ==
    k < Len(text) /\ text[k] = "&" /\ text[k + 1] \in NamedEntities

(***************************************************************************)
(* C24 as stated: sanitizeXml gives the text with every named entity       *)
(* (&ldquo; ... &nbsp;) replaced by its ASCII equivalent and every bare &  *)
(* escaped to &amp;; no named entity is left in the output.  Checked under *)
(* SpecText.                                                               *)
(***************************************************************************)
C24_Original ==
    (txt.fn = "sanitizeXml" /\ txt.output # Null) =>
        /\ txt.output[1] = SanitizedAsStated(txt.input, 1)
        /\ \A k \in 1..Len(txt.output[1]) : ~NamedAt(txt.output[1], k)

\* what the function does: every "&" of the output begins a recognized
\* entity, and a named entity of the input comes out as &amp; followed by
\* its name, never as its ASCII equivalent
C24_NamedEntitiesEscapedNotReplaced ==
    (txt.fn = "sanitizeXml" /\ txt.output # Null) =>
        LET out == txt.output[1]
        IN  /\ \A k \in 1..Len(out) :
                 out[k] = "&"
                 => k < Len(out) /\ out[k + 1] \in RecognizedEntities
            /\ \A k \in 1..Len(out) : out[k] \notin {"\"", "'", "-", " "}
            /\ Len(out) =
                 Len(txt.input)
                 + Cardinality({k \in 1..Len(txt.input) :
                                  /\ txt.input[k] = "&"
                                  /\ ~(/\ k < Len(txt.input)
                                       /\ txt.input[k + 1]
                                            \in RecognizedEntities)})

\* t&ldquo; comes out as t&amp;ldquo;
C24_EntityLeftEscaped ==
    /\ txt.fn = "sanitizeXml"
    /\ txt.input = <<"t", "&", "ldquo;">>
    /\ txt.output = Some(<<"t", "&", "amp;", "ldquo;">>)

\* the character of code point n, in UTF-16
CodePoint(n) ==
    IF n < 65536 THEN <<Unit(n)>>
    ELSE <<Unit(55296 + ((n - 65536) \div 1024)),
           Unit(56320 + ((n - 65536) % 1024))>>

RECURSIVE DecodedAsStated(_, _)
DecodedAsStated(str, k) ==
    IF k > Len(str) THEN <<>>
    ELSE IF str[k].kind = "ref"
    THEN CodePoint(str[k].code) \o DecodedAsStated(str, k + 1)
    ELSE <<str[k]>> \o DecodedAsStated(str, k + 1)

(***************************************************************************)
(* C25 as stated: decodeHtmlEntities replaces every reference &#N; by the  *)
(* character of code point N, also for N above 65535, and leaves the rest  *)
(* of the text as it is; the empty text gives the empty text.  Checked     *)
(* under SpecText.                                                         *)
(***************************************************************************)
C25_Original ==
    (txt.fn = "decodeHtmlEntities" /\ txt.output # Null) =>
        txt.output[1] = DecodedAsStated(txt.input, 1)

\* the part of C25 that holds: a text whose references are all below 65536
\* is decoded as stated
C25_DecodesOneUnitReferences ==
    (/\ txt.fn = "decodeHtmlEntities" /\ txt.output # Null
     /\ \A k \in 1..Len(txt.input) : txt.input[k].code < 65536) =>
        txt.output[1] = DecodedAsStated(txt.input, 1)

\* &#128512; comes out as the one code unit 62976 (U+F600)
C25_HighReferenceTruncated ==
    /\ txt.fn = "decodeHtmlEntities"
    /\ txt.input = <<Ref(128512)>>
    /\ txt.output = Some(<<Unit(62976)>>)

(***************************************************************************)
(* C26 as stated: every orchestrator run that returned has its result in   *)
(* the cache when its caller is done with it: a blocking GET that returned *)
(* has written an entry holding its sources (feedCount their number), and  *)
(* no background refresh ends with its write refused.  Checked under Spec. *)
(***************************************************************************)
C26_Original ==
    /\ \A r \in Reqs :
         FetchReturned(r) =>
             /\ eff[r].written # Null
             /\ eff[r].written[1].data.run = GetRun(r)
             /\ eff[r].written[1].feedCount = Len(resp[r][1].sources[1])
    /\ bgHist.last # "failed"

(***************************************************************************)
(* C26, amended: the caller of a run that returned hands the result to     *)
(* setCachedFeeds once, whatever the number of sources, and does not look  *)
(* at the outcome.  When the store takes the write, the entry is the whole *)
(* result with feedCount = number of sources (0 after a run in which every *)
(* feed failed) and the time of the call as timestamp, in place of         *)
(* whatever entry there was; when the store refuses it the cache is left   *)
(* as it was.  A request that reads an entry with zero sources at an age   *)
(* <= 15 min, without clearCache, answers with the empty aggregate as      *)
(* Fresh (stale = false, refreshing = false, status 200), fetching         *)
(* nothing.  Checked under Spec.                                           *)
(***************************************************************************)
C26_EmptyAggregateCached ==
    /\ \A r \in Reqs :
         FetchReturned(r) =>
             /\ eff[r].writes = 1
             /\ eff[r].written # Null
                => /\ eff[r].written =
                        Some([data |-> Data(resp[r][1].sources[1], GetRun(r)),
                              timestamp |-> eff[r].written[1].timestamp,
                              feedCount |-> Len(resp[r][1].sources[1])])
                   /\ eff[r].written[1].timestamp \in T0..now
    /\ (cache # Null /\ cache[1].data.run # 0)
       => /\ cache[1].feedCount = Len(cache[1].data.sources)
          /\ cache[1].timestamp \in T0..now
    /\ \A r \in Reqs :
         (SawFresh(r) /\ eff[r].seen[1].sources = <<>>) =>
             /\ resp[r] # Null
             /\ IsFeedResponse(resp[r][1], <<>>, eff[r].seen[1].run,
                               FALSE, FALSE)
             /\ eff[r].fetches = 0 /\ eff[r].triggers = 0
             /\ eff[r].writes = 0

\* every feed failed in the blocking fetch of q over an Expired entry that
\* held the registry: the empty aggregate replaced it and r was served it
\* as Fresh
C26_Witness ==
    \E r, q \in Reqs :
        /\ SawExpired(q) /\ eff[q].seen[1].sources = AllFeeds
        /\ FetchReturned(q)
        /\ resp[q][1].sources = Some(<<>>)
        /\ eff[q].written # Null
        /\ eff[q].written[1].feedCount = 0
        /\ SawFresh(r)
        /\ eff[r].seen[1].run = GetRun(q)
        /\ eff[r].seen[1].sources = <<>>
        /\ resp[r] # Null /\ resp[r][1].sources = Some(<<>>)

\* the entry setCachedFeeds builds for the run of request r, of refresh b
EntryOfGet(r) ==
    Some([data |-> Data(req[r].sources, GetRun(r)),
          timestamp |-> req[r].stamp,
          feedCount |-> Len(req[r].sources)])
EntryOfRefresh(b) ==
    Some([data |-> Data(bg[b].sources, bg[b].run),
          timestamp |-> bg[b].stamp,
          feedCount |-> Len(bg[b].sources)])

\* the blocking runs in progress
Blocking == {r \in Reqs : req[r].pc \in {"fetch", "write"}}

(***************************************************************************)
(* C27: no step of a GET /api/rss handler changes refreshInProgress, and a *)
(* read that finds no entry or an Expired one starts a blocking run        *)
(* whatever the flag is and whatever runs are in progress, so blocking     *)
(* runs overlap one another and a background refresh.  Each run issues one *)
(* write of a whole entry: a write the store takes replaces the entry,     *)
(* whoever wrote it and whenever, by the run's sources with the timestamp  *)
(* taken when that run called setCachedFeeds; a refused write changes      *)
(* nothing.  The cache changes in no other step but a clear, so it holds   *)
(* the entry of the run whose write was taken last.                        *)
(***************************************************************************)
C27_BlockingRunsOverlapLastWriteWins ==
    [][/\ \A r \in Reqs :
            /\ req'[r] # req[r] => refreshInProgress' = refreshInProgress
            /\ (ReadStep(r) /\ (\/ eff'[r].seen = Null
                                \/ IsExpiredAge(eff'[r].seen[1].age)))
               => /\ req'[r].pc = "fetch"
                  /\ Blocking' = Blocking \cup {r}
                  /\ Running' = Running
            /\ WriteStep(r)
               => cache' = IF eff'[r].written # Null
                           THEN EntryOfGet(r) ELSE cache
       /\ \A b \in BgIds :
            (bg[b].pc = "write" /\ bg'[b] # bg[b])
            => cache' = IF bgHist'.last = "completed"
                        THEN EntryOfRefresh(b) ELSE cache
       /\ cache' # cache
          => \/ \E r \in Reqs : WriteStep(r) /\ cache' = EntryOfGet(r)
             \/ \E r \in Reqs : req[r].pc = "clear" /\ cache' = Null
             \/ \E b \in BgIds : bg[b].pc = "write"
                                 /\ cache' = EntryOfRefresh(b)
      ]_vars

\* two blocking runs and a background refresh, each started on the same
\* Expired entry, have their writes in flight together
C27_Witness ==
    \E r, q \in Reqs :
        /\ r # q
        /\ SawExpired(r) /\ SawExpired(q)
        /\ req[r].pc = "write" /\ req[q].pc = "write"
        /\ \E b \in BgIds : bg[b].pc = "write"
        /\ refreshInProgress

\* the write taken last is the one of the run that called setCachedFeeds
\* first: the cache holds its result under the older timestamp
C27_WitnessOlderStampWins ==
    \E r, q \in Reqs :
        /\ r # q
        /\ FetchReturned(r) /\ FetchReturned(q)
        /\ eff[r].written # Null /\ eff[q].written # Null
        /\ cache = eff[r].written
        /\ cache[1].timestamp < eff[q].written[1].timestamp

(***************************************************************************)
(* checkRateLimit on its own (ratelimit.js): callers with two keys, one    *)
(* limit and one window per behaviour, the clock in milliseconds, and the  *)
(* cleanup of the interval timer (ratelimit.js:35-42) running at any time. *)
(* Every call is kept with the Map before and after it.                    *)
(***************************************************************************)
\* the limits tried: 1..MaxLimit
MaxLimit == 2
\* the windows tried, in ms: 1..MaxWindow
MaxWindow == 2
\* calls kept
MaxLimitCalls == 4
\* the clock goes from T0 to T0 + MaxLimitTime
MaxLimitTime == 3

LimitKeys == {"rss-unknown", "rss-10.0.0.1"}

\* no request is being handled
HandlersIdle ==
    /\ refreshInProgress = FALSE
    /\ req = [r \in Reqs |-> IdleReq]
    /\ resp = [r \in Reqs |-> Null]
    /\ trig = [r \in Reqs |-> "none"]
    /\ bg = [b \in BgIds |-> IdleBg]
    /\ eff = [r \in Reqs |-> NoEff]
    /\ bgHist = [started |-> 0, last |-> "none"]
    /\ ext = [posts |-> 0, refreshing |-> 0, last |-> "none"]

LimitInit ==
    /\ now = T0
    /\ cache = Null
    /\ requests = [k \in LimitKeys |-> Null]
    /\ HandlersIdle
    /\ StatusIdle /\ FeedIdle /\ FetchIdle /\ StoreIdle /\ RefreshIdle
    /\ FieldIdle /\ TextIdle
    /\ rlcfg \in [limit : 1..MaxLimit, windowMs : 1..MaxWindow]
    /\ rlog = <<>>

limitFrame == <<cache, refreshInProgress, req, resp, trig, bg, eff, bgHist,
                ext, notLimit>>

\* ratelimit.js:11-32, one call
LimitCall(key) ==
    /\ Len(rlog) < MaxLimitCalls
    /\ LET rl == checkRateLimit(requests, key, rlcfg.limit, rlcfg.windowMs,
                                now)
       IN  /\ requests' = rl.requests
           /\ rlog' = Append(rlog, [key |-> key, t |-> now,
                                    allowed |-> rl.allowed,
                                    before |-> requests,
                                    after |-> rl.requests])
    /\ UNCHANGED <<now, rlcfg, limitFrame>>

\* ratelimit.js:35-42, the callback of setInterval: the records whose window
\* is over are deleted
LimitCleanup ==
    /\ \E k \in LimitKeys : requests[k] # Null /\ now > requests[k][1].resetTime
    /\ requests' = [k \in LimitKeys |->
                      IF requests[k] # Null /\ now > requests[k][1].resetTime
                      THEN Null ELSE requests[k]]
    /\ UNCHANGED <<now, rlcfg, rlog, limitFrame>>

\* Date.now() moves on by a millisecond
LimitTick ==
    /\ now < T0 + MaxLimitTime
    /\ now' = now + 1
    /\ UNCHANGED <<requests, rlcfg, rlog, limitFrame>>

LimitNext ==
    \/ \E key \in LimitKeys : LimitCall(key)
    \/ LimitCleanup
    \/ LimitTick

SpecLimit == LimitInit /\ [][LimitNext]_vars

\* the call before call n with the same key (0: none)
RECURSIVE PrevSameKey(_, _)
PrevSameKey(n, m) ==
    IF m = 0 THEN 0
    ELSE IF rlog[m].key = rlog[n].key THEN m
    ELSE PrevSameKey(n, m - 1)

\* the call that opened the window call n falls in: call n itself when it
\* is the first of its key or comes strictly after the end t0 + windowMs of
\* the window of the call before it
RECURSIVE WindowOpener(_)
WindowOpener(n) ==
    LET p == PrevSameKey(n, n - 1)
    IN  IF p = 0 THEN n
        ELSE IF rlog[n].t > rlog[WindowOpener(p)].t + rlcfg.windowMs THEN n
        ELSE WindowOpener(p)

\* the rank of call n among the calls of its key in its window
RankInWindow(n) ==
    Cardinality({m \in 1..n : /\ rlog[m].key = rlog[n].key
                              /\ WindowOpener(m) = WindowOpener(n)})

(***************************************************************************)
(* C28: checkRateLimit(key, limit, windowMs), limit >= 1, is a fixed       *)
(* window per key: of the calls of one key from the call that opened the   *)
(* window at t0 up to and including t0 + windowMs, the first `limit` are   *)
(* allowed and every later one is denied; a denied call leaves the Map as  *)
(* it was; the first call strictly after t0 + windowMs is allowed and      *)
(* opens a window with count 1 that ends windowMs later; no count in the   *)
(* Map is above limit; a call leaves the records of the other keys as they *)
(* were.  The cleanup timer changes none of this.  Checked under           *)
(* SpecLimit.                                                              *)
(***************************************************************************)
C28_FixedWindowPerKey ==
    /\ \A n \in 1..Len(rlog) :
         LET c == rlog[n]
         IN  /\ c.allowed <=> RankInWindow(n) <= rlcfg.limit
             /\ ~c.allowed => c.after = c.before
             /\ WindowOpener(n) = n
                => /\ c.allowed
                   /\ c.after[c.key] =
                        Some([count |-> 1,
                              resetTime |-> c.t + rlcfg.windowMs])
             /\ (c.allowed /\ WindowOpener(n) # n)
                => c.after[c.key] =
                     Some([count |-> RankInWindow(n),
                           resetTime |->
                               rlog[WindowOpener(n)].t + rlcfg.windowMs])
             /\ \A k \in LimitKeys \ {c.key} : c.after[k] = c.before[k]
    /\ \A k \in LimitKeys :
         requests[k] # Null => requests[k][1].count <= rlcfg.limit

\* limit 2, window 2 ms: two calls allowed, a third denied at exactly
\* t0 + windowMs, a fourth allowed one millisecond later
C28_Witness ==
    /\ rlcfg = [limit |-> 2, windowMs |-> 2]
    /\ Len(rlog) = 4
    /\ \A n \in 1..4 : rlog[n].key = "rss-unknown"
    /\ rlog[1].t = T0 /\ rlog[1].allowed
    /\ rlog[2].allowed
    /\ rlog[3].t = T0 + 2 /\ ~rlog[3].allowed
    /\ rlog[4].t = T0 + 3 /\ rlog[4].allowed
    /\ requests["rss-unknown"] = Some([count |-> 1, resetTime |-> T0 + 5])

\* the key of the requests (route.js:41-42) has used up its limit in the
\* window that is open
LimitUsedUp ==
    /\ requests["rss-unknown"] # Null
    /\ requests["rss-unknown"][1].count >= RssLimit
    /\ now <= requests["rss-unknown"][1].resetTime

\* the step in which the handler of request r starts
BeginStep(r) == req[r].pc = "idle" /\ req'[r].pc # "idle"

(***************************************************************************)
(* C29: a GET /api/rss that arrives when its key has used its 10 requests  *)
(* of the open 60-second window is answered in that step with status 429   *)
(* and an error, and the step changes nothing else: not the cache, no      *)
(* trigger, no refresh, not the limiter's record; the request has made no  *)
(* cache read, clear or write, no fetch and no trigger, with clearCache    *)
(* or without, and makes none later.  A request that arrives otherwise is  *)
(* not answered in that step and goes on to the cache.                     *)
(***************************************************************************)
C29_RateLimitedTouchesNothing ==
    /\ [][\A r \in Reqs :
            BeginStep(r) =>
                IF LimitUsedUp
                THEN /\ resp'[r] # Null
                     /\ resp'[r][1].status = 429
                     /\ resp'[r][1].error = ErrTooMany
                     /\ resp'[r][1].sources = Null
                     /\ req'[r].pc = "done"
                     /\ UNCHANGED <<cache, requests, refreshInProgress, trig,
                                    bg, bgHist, eff, ext>>
                ELSE /\ resp'[r] = Null
                     /\ req'[r].pc \in {"clear", "read"}
         ]_vars
    /\ [](\A r \in Reqs :
            (resp[r] # Null /\ resp[r][1].status = 429)
            => /\ eff[r] = NoEff
               /\ trig[r] = "none"
               /\ req[r].pc = "done")

\* the second request of the window's last two was refused while the cache
\* held a Stale entry, which the first was served and asked to refresh
C29_Witness ==
    \E r, q \in Reqs :
        /\ resp[r] # Null /\ resp[r][1].status = 429
        /\ eff[r] = NoEff /\ trig[r] = "none"
        /\ SawStale(q) /\ eff[q].triggers = 1
        /\ cache # Null /\ cache[1].data.run = 0
        /\ requests["rss-unknown"] =
             Some([count |-> RssLimit, resetTime |-> T0 + DefaultWindowMs])

\* the event loop resumes what has settled: every processFeed call settles
\* (its fetch is aborted after 10 s, part_002:44-45, and it never throws),
\* and allSettled then resumes the loop
FetchStep == (\E k \in 1..MaxConfigLen : FeedSettles(k)) \/ FaBatchSettled

LiveFetch == SpecFetch /\ WF_vars(FetchStep)

\* Math.ceil(n / b)
CeilDiv(n, b) == (n + b - 1) \div b

(***************************************************************************)
(* C30: a run of fetchAllFeeds(batchSize), batchSize >= 1, whose           *)
(* processFeed calls all settle, returns: the chunk index only moves up,   *)
(* by batchSize at a time, and the run ends after ceil(n / batchSize)      *)
(* chunks for a registry of n feeds, every feed of the registry having     *)
(* been handed to processFeed once (a call is issued once and settles      *)
(* once) and none being left out.  Checked under LiveFetch.                *)
(***************************************************************************)
C30_FetchAllFeedsTerminates ==
    /\ (fa.pc = "await") ~> (fa.pc = "done")
    /\ [](fa.pc = "done"
          => /\ fa.i = CeilDiv(Len(fa.feeds), fa.batchSize) * fa.batchSize
             /\ Len(fa.promises) = Len(fa.feeds)
             /\ \A k \in 1..Len(fa.feeds) :
                  fa.promises[k].status = "fulfilled")
    /\ [](fa.pc = "await"
          => /\ fa.batchSize >= 1
             /\ fa.i < Len(fa.feeds)
             /\ fa.i % fa.batchSize = 0)
    /\ [][/\ fa'.i # fa.i => fa'.i = fa.i + fa.batchSize
          /\ \A k \in 1..Len(fa.promises) :
               fa'.promises[k] # fa.promises[k]
               => \/ /\ fa.promises[k].status = "unissued"
                     /\ fa'.promises[k].status = "pending"
                  \/ /\ fa.promises[k].status = "pending"
                     /\ fa'.promises[k].status = "fulfilled"
         ]_vars

\* a registry of three feeds in chunks of two: the run ended after two
\* chunks, the index at 4
C30_Witness ==
    /\ fa.pc = "done"
    /\ Len(fa.feeds) = 3 /\ fa.batchSize = 2
    /\ fa.i = 4
    /\ \A k \in 1..3 : fa.promises[k].status = "fulfilled"

====
